---- MODULE Spec2Model ----
(***************************************************************************)
(* Model of the clintrAI harmonization core: overlap analysis, preparation *)
(* of the CSV and JSON sources, the outer join, the three coalescing       *)
(* strategies, the provenance rule and the schema enforcer.                *)
(*                                                                         *)
(* Text values are sequences of one-character strings, so that splitting   *)
(* on "|" and lower-casing are computed rather than assumed.  A cell of a  *)
(* data frame is a record with one slot per kind of payload, so that any   *)
(* two cells can be compared.                                              *)
(***************************************************************************)
EXTENDS Integers, Sequences, FiniteSets, TLC

\* ------------------------------------------------------------------------
\* Cells
\* ------------------------------------------------------------------------
Null == [t |-> "null", s |-> <<>>, n |-> 0, l |-> <<>>]
Str(x) == [t |-> "str", s |-> x, n |-> 0, l |-> <<>>]
IntCell(k) == [t |-> "int", s |-> <<>>, n |-> k, l |-> <<>>]
Bool(b) == [t |-> "bool", s |-> <<>>, n |-> IF b THEN 1 ELSE 0, l |-> <<>>]
List(xs) == [t |-> "list", s |-> <<>>, n |-> 0, l |-> xs]
Time(k) == [t |-> "time", s |-> <<>>, n |-> k, l |-> <<>>]

IsNull(c) == c.t = "null"

\* ------------------------------------------------------------------------
\* Sequence helpers
\* ------------------------------------------------------------------------
Range(q) == {q[i] : i \in 1..Len(q)}

Contains(q, x) == \E i \in 1..Len(q) : q[i] = x

RECURSIVE Flatten(_)
Flatten(qq) == IF qq = <<>> THEN <<>> ELSE Head(qq) \o Flatten(Tail(qq))

\* ------------------------------------------------------------------------
\* Enumerations of clintrai.models.types
\* ------------------------------------------------------------------------
DeduplicationStrategy == {"json_priority", "csv_priority", "merge_all"}

\* The members of DataSource, by name.
DataSource == [CSV_ONLY |-> "csv_only", JSON_ONLY |-> "json_only", JSON_PRIORITY |-> "json_priority", CSV_FALLBACK |-> "csv_fallback", MERGED |-> "merged"]

\* Attribute access on the enumeration: a name that is not a member raises.
HasMember(enum, name) == name \in DOMAIN enum

\* ------------------------------------------------------------------------
\* Text: a string is a sequence of one-character strings
\* ------------------------------------------------------------------------
RECURSIVE SplitAcc(_, _, _, _)
SplitAcc(s, d, cur, acc) == IF s = <<>> THEN Append(acc, cur) ELSE IF Head(s) = d THEN SplitAcc(Tail(s), d, <<>>, Append(acc, cur)) ELSE SplitAcc(Tail(s), d, Append(cur, Head(s)), acc)

\* polars str.split: the pieces between the delimiters, empty pieces kept.
str_split(s, d) == SplitAcc(s, d, <<>>, <<>>)

LowerOf == [Y |-> "y", E |-> "e", S |-> "s", N |-> "n", O |-> "o", T |-> "t", R |-> "r", U |-> "u"]

\* polars str.to_lowercase
str_to_lowercase(s) == [i \in 1..Len(s) |-> IF s[i] \in DOMAIN LowerOf THEN LowerOf[s[i]] ELSE s[i]]

\* ------------------------------------------------------------------------
\* Data frames: ordered columns, a dtype per column, rows as functions
\* from the column names to cells.  err # "" is a raised exception.
\* ------------------------------------------------------------------------
Frame(cols, dt, rows) == [err |-> "", cols |-> cols, dt |-> dt, rows |-> rows]

Raise(e) == [err |-> e, cols |-> <<>>, dt |-> <<>>, rows |-> <<>>]

NoFrame == Raise("not_computed")

ColSet(df) == Range(df.cols)

\* pl.DataFrame({key: []}, schema={key: pl.Utf8})
KeyOnlyFrame(key) == Frame(<<key>>, [c \in {key} |-> "Utf8"], <<>>)

\* df.rename(mapping), mapping a function from old names to new names
rename(df, mapping) == LET nm(c) == IF c \in DOMAIN mapping THEN mapping[c] ELSE c
                           old(c) == CHOOSE o \in ColSet(df) : nm(o) = c
                           cols == [i \in 1..Len(df.cols) |-> nm(df.cols[i])]
                       IN Frame(cols, [c \in Range(cols) |-> df.dt[old(c)]], [i \in 1..Len(df.rows) |-> [c \in Range(cols) |-> df.rows[i][old(c)]]])

\* ------------------------------------------------------------------------
\* Expressions (pl.Expr).  An expression names its output column (alias),
\* an operation, up to two input columns and up to three literals.
\* ------------------------------------------------------------------------
Expr(op, out, a, b, lits) == [op |-> op, out |-> out, a |-> a, b |-> b, lits |-> lits]

Refs(e) == {e.a, e.b} \ {""}

\* list.unique() leaves the order of the result unspecified: uq is the
\* order the library happens to produce, a sequence of tokens; tokens that
\* uq does not rank follow in order of first occurrence.
RECURSIVE Dedup(_)
Dedup(q) == IF q = <<>> THEN <<>> ELSE LET r == Dedup(SubSeq(q, 1, Len(q) - 1)) IN IF Contains(r, q[Len(q)]) THEN r ELSE Append(r, q[Len(q)])

\* the concatenation left as it is, duplicates kept
list_unique_keeps_duplicates(l, uq) == l

list_unique(l, uq) == LET ranked == SelectSeq(uq, LAMBDA x : Contains(l, x))
                          rest == SelectSeq(Dedup(l), LAMBDA x : ~Contains(uq, x))
                      IN ranked \o rest

\* pl.coalesce([a, b]): the first non-null value
coalesce(x, y) == IF ~IsNull(x) THEN x ELSE y

\* Stand-in for the library's 64-bit hash of a string: a fixed function of
\* the text into 0..HashSpace-1.  A null hashes to a value as well.
HashSpace == 97

CharCode(ch) == CASE ch = "N" -> 1 [] ch = "C" -> 2 [] ch = "T" -> 3 [] ch = "1" -> 4 [] ch = "2" -> 5 [] ch = "3" -> 6 [] OTHER -> 7

RECURSIVE HashText(_)
HashText(s) == IF s = <<>> THEN 5 ELSE (HashText(SubSeq(s, 1, Len(s) - 1)) * 31 + CharCode(s[Len(s)])) % HashSpace

hash(x) == IF IsNull(x) THEN IntCell(11) ELSE IntCell(HashText(x.s))

Digits == <<"0", "1", "2", "3", "4", "5", "6", "7", "8", "9">>

DigitVal(ch) == (CHOOSE i \in 1..Len(Digits) : Digits[i] = ch) - 1

RECURSIVE ParseInt(_)
ParseInt(s) == IF Len(s) = 1 THEN DigitVal(s[1]) ELSE ParseInt(SubSeq(s, 1, Len(s) - 1)) * 10 + DigitVal(s[Len(s)])

\* cast(pl.Int64, strict=False): what cannot be read as an integer is null
cast_int_nonstrict(c) == CASE c.t = "int" -> c
                           [] c.t = "bool" -> IntCell(c.n)
                           [] c.t = "str" -> IF c.s # <<>> /\ \A i \in 1..Len(c.s) : Contains(Digits, c.s[i]) THEN IntCell(ParseInt(c.s)) ELSE Null
                           [] OTHER -> Null

TruthyTokens == {<<"y", "e", "s">>, <<"t", "r", "u", "e">>, <<"1">>}

\* Value of an expression on one row.
Eval(e, r, uq) == CASE e.op = "col" -> r[e.a]
                    [] e.op = "coalesce" -> coalesce(r[e.a], r[e.b])
                    [] e.op = "merged_list" -> IF ~IsNull(r[e.a]) /\ ~IsNull(r[e.b]) THEN List(list_unique(r[e.a].l \o r[e.b].l, uq)) ELSE coalesce(r[e.a], r[e.b])
                    [] e.op = "split_fill" -> IF IsNull(r[e.a]) THEN List(<<>>) ELSE List(str_split(r[e.a].s, "|"))
                    [] e.op = "lower_is_in" -> IF IsNull(r[e.a]) THEN Null ELSE Bool(str_to_lowercase(r[e.a].s) \in TruthyTokens)
                    [] e.op = "cast_int" -> cast_int_nonstrict(r[e.a])
                    [] e.op = "hash" -> hash(r[e.a])
                    [] e.op = "lit" -> e.lits[1]
                    [] e.op = "when" -> IF ~IsNull(r[e.a]) THEN e.lits[1] ELSE e.lits[2]
                    [] e.op = "when_both" -> IF ~IsNull(r[e.a]) /\ ~IsNull(r[e.b]) THEN e.lits[1] ELSE IF ~IsNull(r[e.a]) THEN e.lits[2] ELSE e.lits[3]
                    [] e.op = "when_nested" -> IF ~IsNull(r[e.a]) THEN (IF ~IsNull(r[e.b]) THEN e.lits[1] ELSE e.lits[2]) ELSE e.lits[3]

CellDtype(c) == CASE c.t = "str" -> "Utf8" [] c.t = "int" -> "Int64" [] c.t = "bool" -> "Boolean" [] c.t = "list" -> "ListUtf8" [] c.t = "time" -> "DatetimeUTC" [] OTHER -> "Null"

\* Dtype of an expression's result, given the dtypes of the frame.
ExprDtype(e, dt) == CASE e.op = "col" -> dt[e.a]
                      [] e.op \in {"coalesce", "merged_list"} -> IF dt[e.a] # "Null" THEN dt[e.a] ELSE dt[e.b]
                      [] e.op = "split_fill" -> "ListUtf8"
                      [] e.op = "lower_is_in" -> "Boolean"
                      [] e.op = "cast_int" -> "Int64"
                      [] e.op = "hash" -> "UInt64"
                      [] e.op = "lit" -> CellDtype(e.lits[1])
                      [] OTHER -> "Utf8"

\* df.with_columns(exprs): every expression reads the frame as it was; a
\* column that is not in the frame raises; an output replaces the column of
\* its name or is appended after the existing columns.
with_columns(df, exprs, uq) == IF df.err # "" THEN df
                               ELSE IF \E i \in 1..Len(exprs) : ~(Refs(exprs[i]) \subseteq ColSet(df)) THEN Raise("ColumnNotFoundError")
                               ELSE LET outs == [i \in 1..Len(exprs) |-> exprs[i].out]
                                        outset == Range(outs)
                                        cols == df.cols \o SelectSeq(outs, LAMBDA c : c \notin ColSet(df))
                                        colset == Range(cols)
                                        ex == [c \in outset |-> exprs[CHOOSE i \in 1..Len(exprs) : exprs[i].out = c]]
                                    IN Frame(cols, [c \in colset |-> IF c \in outset THEN ExprDtype(ex[c], df.dt) ELSE df.dt[c]], [k \in 1..Len(df.rows) |-> [c \in colset |-> IF c \in outset THEN Eval(ex[c], df.rows[k], uq) ELSE df.rows[k][c]]])

\* left.join(right, left_on, right_on, how="outer_coalesce"): every left
\* row with each right row of the same non-null key, or with nulls when
\* there is none; then every right row no left row matched, its key in the
\* left key column.  The right key column is dropped.
join_outer_coalesce(left, right, left_on, right_on) ==
    IF left.err # "" THEN left ELSE IF right.err # "" THEN right
    ELSE LET rcols == SelectSeq(right.cols, LAMBDA c : c # right_on)
             cols == left.cols \o rcols
             same(lr, rr) == ~IsNull(lr[left_on]) /\ lr[left_on] = rr[right_on]
             both(lr, rr) == [c \in Range(cols) |-> IF c \in ColSet(left) THEN lr[c] ELSE rr[c]]
             lonly(lr) == [c \in Range(cols) |-> IF c \in ColSet(left) THEN lr[c] ELSE Null]
             ronly(rr) == [c \in Range(cols) |-> IF c = left_on THEN rr[right_on] ELSE IF c \in ColSet(left) THEN Null ELSE rr[c]]
             matches(lr) == SelectSeq(right.rows, LAMBDA rr : same(lr, rr))
             forleft(lr) == IF matches(lr) = <<>> THEN <<lonly(lr)>> ELSE [j \in 1..Len(matches(lr)) |-> both(lr, matches(lr)[j])]
             unmatched == SelectSeq(right.rows, LAMBDA rr : \A i \in 1..Len(left.rows) : ~same(left.rows[i], rr))
         IN Frame(cols, [c \in Range(cols) |-> IF c \in ColSet(left) THEN left.dt[c] ELSE right.dt[c]], Flatten([i \in 1..Len(left.rows) |-> forleft(left.rows[i])]) \o [j \in 1..Len(unmatched) |-> ronly(unmatched[j])])

\* ------------------------------------------------------------------------
\* The CSV source and its preparation (clintrai.processing.preparation)
\* ------------------------------------------------------------------------
MapOf(pairs) == [k \in {pairs[i][1] : i \in 1..Len(pairs)} |-> pairs[CHOOSE i \in 1..Len(pairs) : pairs[i][1] = k][2]]

column_mapping == MapOf(<< <<"NCT Number", "nct_id">>, <<"Study Title", "title">>, <<"Study URL", "study_url">>, <<"Acronym", "acronym">>,
    <<"Study Status", "overall_status">>, <<"Study Results", "has_results">>, <<"Conditions", "conditions">>, <<"Interventions", "interventions">>,
    <<"Sponsor", "lead_sponsor">>, <<"Collaborators", "collaborators">>, <<"Sex", "sex">>, <<"Age", "minimum_age">>, <<"Phases", "study_phase">>,
    <<"Enrollment", "enrollment">>, <<"Start Date", "start_date">>, <<"Primary Completion Date", "primary_completion_date">>,
    <<"Completion Date", "completion_date">>, <<"First Posted", "first_posted">>, <<"Last Update Posted", "last_update_posted">>,
    <<"Study Documents", "document_urls">>, <<"Locations", "locations">> >>)

CsvListFields == <<"conditions", "interventions", "collaborators", "document_urls", "locations">>

\* pl.scan_csv(path).collect(): the file's columns under their header
\* names; cells are text or null, the cells of a numeric column integers.
scan_csv(csv) == IF ~csv.exists THEN Raise("FileNotFoundError")
                 ELSE Frame(csv.header, [c \in Range(csv.header) |-> IF (\E i \in 1..Len(csv.rows) : csv.rows[i][c].t = "int") /\ (\A i \in 1..Len(csv.rows) : csv.rows[i][c].t \in {"int", "null"}) THEN "Int64" ELSE "Utf8"], csv.rows)

\* The date conversions of lines 123-136 are built only for date columns
\* of the frame; the headers modelled here carry none.
_standardize_csv_columns(csv_df) ==
    LET existing_mappings == [k \in DOMAIN column_mapping \cap ColSet(csv_df) |-> column_mapping[k]]
        df == rename(csv_df, existing_mappings)
        lists == SelectSeq(CsvListFields, LAMBDA f : f \in ColSet(df))
    IN with_columns(df,
          [i \in 1..Len(lists) |-> Expr("split_fill", lists[i], lists[i], "", <<>>)]
          \o (IF "has_results" \in ColSet(df) THEN <<Expr("lower_is_in", "has_results", "has_results", "", <<>>)>> ELSE <<>>)
          \o (IF "enrollment" \in ColSet(df) THEN <<Expr("cast_int", "enrollment", "enrollment", "", <<>>)>> ELSE <<>>),
          <<>>)

\* csv_lf.filter(pl.col("NCT Number").is_in(list(nct_ids))).collect()
filter_is_in(df, col, ids) == IF df.err # "" THEN df ELSE IF col \notin ColSet(df) THEN Raise("ColumnNotFoundError") ELSE Frame(df.cols, df.dt, SelectSeq(df.rows, LAMBDA r : ~IsNull(r[col]) /\ r[col].s \in ids))

prepare_csv_df(csv, nct_ids) == IF ~csv.exists THEN Raise("FileNotFoundError")
                                ELSE IF nct_ids = {} THEN KeyOnlyFrame("nct_id")
                                ELSE LET csv_df == filter_is_in(scan_csv(csv), "NCT Number", nct_ids)
                                     IN IF csv_df.err # "" THEN csv_df ELSE _standardize_csv_columns(csv_df)

\* ------------------------------------------------------------------------
\* The JSON source (clintrai.models.json_models) and its preparation.
\* A file is absent, or holds a document: valid says whether json.load and
\* the pydantic validation succeed, sections names the optional sections
\* and modules that are present, f holds the leaf values.
\* ------------------------------------------------------------------------
NoFile == [present |-> FALSE, valid |-> FALSE, sections |-> {}, f |-> [hasResults |-> Bool(FALSE)]]

Doc(valid, sections, f) == [present |-> TRUE, valid |-> valid, sections |-> sections, f |-> f]

\* `a and b and c.leaf`: None unless every section on the path is present
Chain(doc, path, leaf) == IF path \subseteq doc.sections THEN doc.f[leaf] ELSE Null

\* `(a and b and c.leaf) or []`
ChainOrEmpty(doc, path, leaf) == LET v == Chain(doc, path, leaf) IN IF IsNull(v) \/ v.l = <<>> THEN List(<<>>) ELSE v

\* the comprehension without its `if x.name`
NamesOf_keeps_unnamed(doc, path, leaf) == IF ~(path \subseteq doc.sections) THEN List(<<>>) ELSE List(doc.f[leaf].l)

\* `[x.name for x in module.items if x.name]`: the entries with a non-empty
\* name, in document order; [] when the module is absent.  Entries are text,
\* <<>> standing for an entry whose name is missing or empty.
NamesOf(doc, path, leaf) == IF ~(path \subseteq doc.sections) THEN List(<<>>) ELSE List(SelectSeq(doc.f[leaf].l, LAMBDA x : x # <<>>))

Ident == {"protocolSection", "identificationModule"}
Status == {"protocolSection", "statusModule"}
Design == {"protocolSection", "designModule"}
Descr == {"protocolSection", "descriptionModule"}
Elig == {"protocolSection", "eligibilityModule"}

\* _flatten_json_record, column by column, in the order of the dictionary
FlatColumns == <<"json_nct_id", "json_official_title", "json_brief_title", "json_acronym", "json_overall_status", "json_study_type", "json_phases",
    "json_has_results", "json_brief_summary", "json_detailed_description", "json_conditions", "json_interventions", "json_condition_meshes",
    "json_sex", "json_minimum_age", "json_maximum_age", "json_healthy_volunteers", "json_enrollment", "json_start_date", "json_completion_date",
    "json_document_files">>

_flatten_json_record(nct_id, doc) ==
    [c \in Range(FlatColumns) |->
        CASE c = "json_nct_id" -> Str(nct_id)
          [] c = "json_official_title" -> Chain(doc, Ident, "officialTitle")
          [] c = "json_brief_title" -> Chain(doc, Ident, "briefTitle")
          [] c = "json_acronym" -> Chain(doc, Ident, "acronym")
          [] c = "json_overall_status" -> Chain(doc, Status, "overallStatus")
          [] c = "json_study_type" -> Chain(doc, Design, "studyType")
          [] c = "json_phases" -> ChainOrEmpty(doc, Design, "phases")
          [] c = "json_has_results" -> doc.f["hasResults"]
          [] c = "json_brief_summary" -> Chain(doc, Descr, "briefSummary")
          [] c = "json_detailed_description" -> Chain(doc, Descr, "detailedDescription")
          [] c = "json_conditions" -> ChainOrEmpty(doc, {"protocolSection", "conditionsModule"}, "conditions")
          [] c = "json_interventions" -> NamesOf(doc, {"protocolSection", "armsInterventionsModule"}, "interventions")
          [] c = "json_condition_meshes" -> NamesOf(doc, {"derivedSection", "conditionBrowseModule"}, "meshes")
          [] c = "json_sex" -> Chain(doc, Elig, "sex")
          [] c = "json_minimum_age" -> Chain(doc, Elig, "minimumAge")
          [] c = "json_maximum_age" -> Chain(doc, Elig, "maximumAge")
          [] c = "json_healthy_volunteers" -> Chain(doc, Elig, "healthyVolunteers")
          [] c = "json_enrollment" -> Chain(doc, Design \cup {"enrollmentInfo"}, "count")
          [] c = "json_start_date" -> Chain(doc, Status \cup {"startDateStruct"}, "startDate")
          [] c = "json_completion_date" -> Chain(doc, Status \cup {"completionDateStruct"}, "completionDate")
          [] c = "json_document_files" -> NamesOf(doc, {"documentSection", "largeDocumentModule"}, "largeDocs")]

\* ClinicalTrialJSONRecord(**json_data): every section and every field of
\* the sections that are flattened is optional but the identifier of the
\* identification module, f being the leaves given in the file
model_validate(sections, f) == "identificationModule" \in sections => ~IsNull(f["nctId"])

\* _process_file: None for a missing file and for one that fails to load
\* or validate, else the flattened record
ProcessOk(json_dir, nct_id) == nct_id \in DOMAIN json_dir /\ json_dir[nct_id].present /\ json_dir[nct_id].valid

\* The records in the order the worker tasks complete (as_completed):
\* order is a sequence of the requested identifiers.
_load_and_flatten_json_records(json_dir, order) == LET ok == SelectSeq(order, LAMBDA i : ProcessOk(json_dir, i)) IN [k \in 1..Len(ok) |-> _flatten_json_record(ok[k], json_dir[ok[k]])]

\* pl.DataFrame(records): the dtype of a column is that of its values, Null
\* when every value is null
InferDtype(rows, c) == IF \E k \in 1..Len(rows) : ~IsNull(rows[k][c]) THEN CellDtype(rows[CHOOSE k \in 1..Len(rows) : ~IsNull(rows[k][c])][c]) ELSE "Null"

prepare_json_df(json_dir, order) == IF order = <<>> THEN KeyOnlyFrame("json_nct_id")
                                    ELSE LET json_records == _load_and_flatten_json_records(json_dir, order)
                                         IN IF json_records = <<>> THEN KeyOnlyFrame("json_nct_id") ELSE Frame(FlatColumns, [c \in Range(FlatColumns) |-> InferDtype(json_records, c)], json_records)

\* ------------------------------------------------------------------------
\* Coalescing strategies (clintrai.processing.strategies)
\* ------------------------------------------------------------------------
\* the coalescing with the priority of the two columns exchanged
_create_coalesce_expression_swapped(primary_col, fallback_col, output_col) == Expr("coalesce", output_col, fallback_col, primary_col, <<>>)

_create_coalesce_expression(primary_col, fallback_col, output_col) == Expr("coalesce", output_col, primary_col, fallback_col, <<>>)

_create_merged_list_expression(json_col, csv_col, output_col) == Expr("merged_list", output_col, json_col, csv_col, <<>>)

_create_preservation_expression(source_col, preserved_alias) == Expr("col", preserved_alias, source_col, "", <<>>)

apply_json_priority_coalescing(df, uq) == with_columns(df, <<
    _create_coalesce_expression("json_official_title", "title", "official_title"),
    _create_coalesce_expression("json_brief_title", "title", "brief_title"),
    _create_coalesce_expression("json_overall_status", "overall_status", "overall_status"),
    _create_coalesce_expression("json_study_type", "study_type", "study_type"),
    _create_coalesce_expression("json_brief_summary", "brief_summary", "brief_summary"),
    Expr("col", "detailed_description", "json_detailed_description", "", <<>>),
    _create_coalesce_expression("json_conditions", "conditions", "conditions"),
    _create_coalesce_expression("json_interventions", "interventions", "interventions"),
    Expr("col", "condition_meshes", "json_condition_meshes", "", <<>>),
    _create_coalesce_expression("json_sex", "sex", "sex"),
    _create_coalesce_expression("json_enrollment", "enrollment", "enrollment"),
    Expr("col", "has_results", "json_has_results", "", <<>>) >>, uq)

apply_csv_priority_coalescing(df, uq) == with_columns(df, <<
    _create_coalesce_expression("title", "json_official_title", "official_title"),
    _create_coalesce_expression("title", "json_brief_title", "brief_title"),
    _create_coalesce_expression("overall_status", "json_overall_status", "overall_status"),
    _create_coalesce_expression("study_type", "json_study_type", "study_type"),
    _create_coalesce_expression("brief_summary", "json_brief_summary", "brief_summary"),
    Expr("col", "detailed_description", "json_detailed_description", "", <<>>),
    _create_coalesce_expression("conditions", "json_conditions", "conditions"),
    _create_coalesce_expression("interventions", "json_interventions", "interventions"),
    Expr("col", "condition_meshes", "json_condition_meshes", "", <<>>),
    _create_coalesce_expression("sex", "json_sex", "sex"),
    _create_coalesce_expression("enrollment", "json_enrollment", "enrollment"),
    Expr("col", "has_results", "json_has_results", "", <<>>) >>, uq)

apply_merge_coalescing(df, uq) == with_columns(df, <<
    _create_coalesce_expression("json_official_title", "title", "official_title"),
    _create_coalesce_expression("json_brief_title", "title", "brief_title"),
    _create_preservation_expression("title", "csv_title"),
    _create_preservation_expression("json_official_title", "json_official_title_preserved"),
    _create_preservation_expression("json_brief_title", "json_brief_title_preserved"),
    _create_coalesce_expression("json_overall_status", "overall_status", "overall_status"),
    _create_preservation_expression("overall_status", "csv_overall_status"),
    _create_coalesce_expression("json_study_type", "study_type", "study_type"),
    _create_coalesce_expression("json_brief_summary", "brief_summary", "brief_summary"),
    Expr("col", "detailed_description", "json_detailed_description", "", <<>>),
    _create_merged_list_expression("json_conditions", "conditions", "conditions"),
    _create_merged_list_expression("json_interventions", "interventions", "interventions"),
    Expr("col", "condition_meshes", "json_condition_meshes", "", <<>>),
    _create_coalesce_expression("json_sex", "sex", "sex"),
    _create_preservation_expression("sex", "csv_sex"),
    _create_coalesce_expression("json_enrollment", "enrollment", "enrollment"),
    _create_preservation_expression("enrollment", "csv_enrollment"),
    Expr("col", "has_results", "json_has_results", "", <<>>) >>, uq)

coalesce_func(strategy, df, uq) == CASE strategy = "json_priority" -> apply_json_priority_coalescing(df, uq)
                                     [] strategy = "csv_priority" -> apply_csv_priority_coalescing(df, uq)
                                     [] strategy = "merge_all" -> apply_merge_coalescing(df, uq)

\* ------------------------------------------------------------------------
\* get_strategy_config (clintrai.metaflow.harmonization): the dictionary
\* of all three strategies is built on every call, each label read as an
\* attribute of DataSource, and then indexed by the strategy.
\* ------------------------------------------------------------------------
SourceLogicMembers == [json_priority |-> <<"JSON_PRIORITY", "CSV_ONLY">>, csv_priority |-> <<"CSV_PRIORITY", "JSON_ONLY">>, merge_all |-> <<"MERGED", "JSON_ONLY", "CSV_ONLY">>]

Labels(strategy) == [i \in 1..Len(SourceLogicMembers[strategy]) |-> Str(DataSource[SourceLogicMembers[strategy][i]])]

source_logic(strategy) == CASE strategy = "json_priority" -> Expr("when", "data_source", "json_official_title", "", Labels(strategy))
                            [] strategy = "csv_priority" -> Expr("when", "data_source", "title", "", Labels(strategy))
                            [] strategy = "merge_all" -> Expr("when_both", "data_source", "json_official_title", "title", Labels(strategy))

get_strategy_config(strategy) == IF \E st \in DeduplicationStrategy : \E i \in 1..Len(SourceLogicMembers[st]) : ~HasMember(DataSource, SourceLogicMembers[st][i])
                                 THEN [err |-> "AttributeError", coalesce_func |-> "", source_logic |-> Expr("", "", "", "", <<>>)]
                                 ELSE [err |-> "", coalesce_func |-> strategy, source_logic |-> source_logic(strategy)]

\* ------------------------------------------------------------------------
\* Schema enforcement (clintrai.processing.schema)
\* ------------------------------------------------------------------------
OUTPUT_SCHEMA == << <<"nct_id", "Utf8">>, <<"title", "Utf8">>, <<"official_title", "Utf8">>, <<"brief_title", "Utf8">>, <<"study_url", "Utf8">>,
    <<"acronym", "Utf8">>, <<"overall_status", "Utf8">>, <<"study_type", "Utf8">>, <<"study_phase", "Utf8">>, <<"has_results", "Boolean">>,
    <<"brief_summary", "Utf8">>, <<"detailed_description", "Utf8">>, <<"conditions", "ListUtf8">>, <<"interventions", "ListUtf8">>,
    <<"condition_meshes", "ListUtf8">>, <<"sex", "Utf8">>, <<"minimum_age", "Utf8">>, <<"maximum_age", "Utf8">>, <<"healthy_volunteers", "Boolean">>,
    <<"enrollment", "Int64">>, <<"start_date", "Date">>, <<"primary_completion_date", "Date">>, <<"completion_date", "Date">>,
    <<"first_posted", "Date">>, <<"last_update_posted", "Date">>, <<"lead_sponsor", "Utf8">>, <<"collaborators", "ListUtf8">>,
    <<"document_urls", "ListUtf8">>, <<"document_files", "ListUtf8">>, <<"locations", "ListUtf8">>, <<"data_source", "Utf8">>,
    <<"shard_hash", "UInt64">>, <<"processing_timestamp", "Datetime">> >>

SchemaNames == [i \in 1..Len(OUTPUT_SCHEMA) |-> OUTPUT_SCHEMA[i][1]]

SchemaTypes == [c \in Range(SchemaNames) |-> OUTPUT_SCHEMA[CHOOSE i \in 1..Len(OUTPUT_SCHEMA) : OUTPUT_SCHEMA[i][1] = c][2]]

SchemaType(c) == SchemaTypes[c]

CastError == [t |-> "error", s |-> <<>>, n |-> 0, l |-> <<>>]

RECURSIVE IntText(_)
IntText(k) == IF k < 10 THEN <<Digits[k + 1]>> ELSE Append(IntText(k \div 10), Digits[(k % 10) + 1])

\* pl.col(c).cast(dtype), strict: a value that cannot be converted raises
cast(c, to) == CASE IsNull(c) -> Null
                 [] CellDtype(c) = to -> c
                 [] c.t = "time" /\ to = "Datetime" -> c
                 [] c.t = "int" /\ to \in {"Int64", "UInt64"} -> IF c.n >= 0 \/ to = "Int64" THEN c ELSE CastError
                 [] c.t = "int" /\ to = "Boolean" -> Bool(c.n # 0)
                 [] c.t = "int" /\ to = "Utf8" -> IF c.n >= 0 THEN Str(IntText(c.n)) ELSE CastError
                 [] c.t = "bool" /\ to \in {"Int64", "UInt64"} -> IntCell(c.n)
                 [] c.t = "bool" /\ to = "Utf8" -> Str(IF c.n = 1 THEN <<"t", "r", "u", "e">> ELSE <<"f", "a", "l", "s", "e">>)
                 [] c.t = "str" /\ to \in {"Int64", "UInt64"} -> IF IsNull(cast_int_nonstrict(c)) THEN CastError ELSE cast_int_nonstrict(c)
                 [] OTHER -> CastError

\* the schema enforcement that casts the columns it finds and adds none
_enforce_output_schema_present_only(df) ==
    IF df.err # "" THEN df
    ELSE LET cols == SelectSeq(SchemaNames, LAMBDA c : c \in ColSet(df))
         IN Frame(cols, [c \in Range(cols) |-> SchemaType(c)], [k \in 1..Len(df.rows) |-> [c \in Range(cols) |-> cast(df.rows[k][c], SchemaType(c))]])

_enforce_output_schema(df) ==
    IF df.err # "" THEN df
    ELSE LET present == ColSet(df)
             names == Range(SchemaNames)
             out == [k \in 1..Len(df.rows) |-> [c \in names |-> IF c \in present THEN cast(df.rows[k][c], SchemaType(c)) ELSE Null]]
         IN IF \E k \in 1..Len(out) : \E c \in names : out[k][c] = CastError THEN Raise("InvalidOperationError")
            ELSE Frame(SchemaNames, SchemaTypes, out)

\* _enforce_output_schema of clintrai.airflow.operators.schema: the same
\* casts, and pl.lit([]) for a missing list column, pl.lit(None) otherwise
operators_enforce_output_schema(df) ==
    IF df.err # "" THEN df
    ELSE LET present == ColSet(df)
             names == Range(SchemaNames)
             out == [k \in 1..Len(df.rows) |-> [c \in names |-> IF c \in present THEN cast(df.rows[k][c], SchemaType(c))
                                                                 ELSE IF SchemaType(c) = "ListUtf8" THEN List(<<>>) ELSE Null]]
         IN IF \E k \in 1..Len(out) : \E c \in names : out[k][c] = CastError THEN Raise("InvalidOperationError")
            ELSE Frame(SchemaNames, SchemaTypes, out)

\* now is datetime.now(timezone.utc) at the call
finalize_and_enforce_schema(df, now) == _enforce_output_schema(with_columns(df, <<Expr("hash", "shard_hash", "nct_id", "", <<>>), Expr("lit", "processing_timestamp", "", "", <<Time(now)>>)>>, <<>>))

\* pl.DataFrame(schema=OUTPUT_SCHEMA)
EmptyOutput == Frame(SchemaNames, SchemaTypes, <<>>)

\* ------------------------------------------------------------------------
\* analyze_overlap and harmonize_data (clintrai.metaflow.harmonization)
\* ------------------------------------------------------------------------
\* json_dir.glob("NCT*.json"): the stems of the files whose name starts NCT
GlobNCT(json_dir) == {i \in DOMAIN json_dir : json_dir[i].present /\ Len(i) >= 3 /\ SubSeq(i, 1, 3) = <<"N", "C", "T">>}

CsvIds(csv) == {csv.rows[k]["NCT Number"].s : k \in 1..Len(csv.rows)}

NoStats == [err |-> "not_computed", csv_total |-> 0, json_total |-> 0, overlap_count |-> 0, csv_only_count |-> 0, json_only_count |-> 0, csv_nct_ids |-> {}, json_nct_ids |-> {}, overlap |-> {}, csv_only |-> {}, json_only |-> {}]

\* analyze_overlap with the document-only set taken against the wrong set
analyze_overlap_wrong_difference(csv, json_dir) ==
    IF ~csv.exists THEN [NoStats EXCEPT !.err = "FileNotFoundError"]
    ELSE LET csv_nct_ids == CsvIds(csv)
             json_nct_ids == GlobNCT(json_dir)
             overlap == csv_nct_ids \cap json_nct_ids
             csv_only == csv_nct_ids \ json_nct_ids
             json_only == json_nct_ids \ csv_only
         IN [err |-> "", csv_total |-> Cardinality(csv_nct_ids), json_total |-> Cardinality(json_nct_ids), overlap_count |-> Cardinality(overlap),
             csv_only_count |-> Cardinality(csv_only), json_only_count |-> Cardinality(json_only), csv_nct_ids |-> csv_nct_ids,
             json_nct_ids |-> json_nct_ids, overlap |-> overlap, csv_only |-> csv_only, json_only |-> json_only]

analyze_overlap(csv, json_dir) ==
    IF ~csv.exists THEN [NoStats EXCEPT !.err = "FileNotFoundError"]
    ELSE LET csv_nct_ids == CsvIds(csv)
             json_nct_ids == GlobNCT(json_dir)
             overlap == csv_nct_ids \cap json_nct_ids
             csv_only == csv_nct_ids \ json_nct_ids
             json_only == json_nct_ids \ overlap
         IN [err |-> "", csv_total |-> Cardinality(csv_nct_ids), json_total |-> Cardinality(json_nct_ids), overlap_count |-> Cardinality(overlap),
             csv_only_count |-> Cardinality(csv_only), json_only_count |-> Cardinality(json_only), csv_nct_ids |-> csv_nct_ids,
             json_nct_ids |-> json_nct_ids, overlap |-> overlap, csv_only |-> csv_only, json_only |-> json_only]

\* the stats dictionary harmonize_data builds
run_stats(csv_df, json_df, harmonized_df) == [input_csv_records |-> Len(csv_df.rows), input_json_records |-> Len(json_df.rows), output_records |-> Len(harmonized_df.rows)]

NoResult == [err |-> "not_computed", df |-> NoFrame, input_csv_records |-> 0, input_json_records |-> 0, output_records |-> 0]

Raised(e) == [NoResult EXCEPT !.err = e]

\* order: the completion order of the document tasks; now: the clock;
\* uq: the order list.unique() produces
harmonize_data(csv, json_dir, overlap_stats, strategy, order, now, uq) ==
    LET json_df == prepare_json_df(json_dir, order)
        csv_df == prepare_csv_df(csv, overlap_stats.overlap \cup overlap_stats.csv_only)
        strategy_config == get_strategy_config(strategy)
        merged_df == join_outer_coalesce(csv_df, json_df, "nct_id", "json_nct_id")
        final_df == with_columns(coalesce_func(strategy_config.coalesce_func, merged_df, uq), <<strategy_config.source_logic>>, uq)
        harmonized_df == IF Len(merged_df.rows) = 0 THEN EmptyOutput ELSE finalize_and_enforce_schema(final_df, now)
    IN IF csv_df.err # "" THEN Raised(csv_df.err)
       ELSE IF strategy_config.err # "" THEN Raised(strategy_config.err)
       ELSE IF merged_df.err # "" THEN Raised(merged_df.err)
       ELSE IF harmonized_df.err # "" THEN Raised(harmonized_df.err)
       ELSE [err |-> "", df |-> harmonized_df, input_csv_records |-> Len(csv_df.rows), input_json_records |-> Len(json_df.rows), output_records |-> Len(harmonized_df.rows)]

\* ------------------------------------------------------------------------
\* The Airflow operator (clintrai.airflow.operators.data_harmonization)
\* ------------------------------------------------------------------------
\* The names clintrai.models.types defines
TypesModule == {"DeduplicationStrategy", "DataSource", "DocumentSource", "DocumentType", "ProcessingStatus", "FileFormat", "CSVFieldName", "JSONSourceField",
    "JSONFieldPath", "HarmonizedFieldName", "HarmonizedFieldAlias", "StudyStatus", "StudyType", "StudyPhase", "Sex", "StudyResults"}

\* from clintrai.models.types import ...: a name the module lacks raises
OperatorImports == {"DeduplicationStrategy", "DataSource", "FieldName", "HarmonizedFieldName"}

OperatorMembers == [json_priority |-> <<"JSON_PRIORITY", "JSON_ONLY", "CSV_ONLY">>, csv_priority |-> <<"CSV_PRIORITY", "CSV_ONLY", "JSON_ONLY">>, merge_all |-> <<"MERGED", "JSON_ONLY", "CSV_ONLY">>]

OperatorLabels(st) == [i \in 1..Len(OperatorMembers[st]) |-> Str(DataSource[OperatorMembers[st][i]])]

\* the source_logic entries of strategy_map
operator_source_logic(st) == CASE st = "json_priority" -> Expr("when_nested", "data_source", "json_official_title", "title", OperatorLabels(st))
                               [] st = "csv_priority" -> Expr("when_nested", "data_source", "title", "json_official_title", OperatorLabels(st))
                               [] st = "merge_all" -> Expr("when_both", "data_source", "json_official_title", "title", OperatorLabels(st))

\* DataHarmonizationOperator.execute: the overlap, then _harmonize_data,
\* whose strategy_map is built whole on every call, then
\* _harmonize_by_priority
operator_execute(csv, json_dir, st, order, now, uq) ==
    IF ~(OperatorImports \subseteq TypesModule) THEN Raised("ImportError")
    ELSE IF ~csv.exists THEN Raised("ValueError")
    ELSE IF \E s2 \in DeduplicationStrategy : \E i \in 1..Len(OperatorMembers[s2]) : ~HasMember(DataSource, OperatorMembers[s2][i]) THEN Raised("AttributeError")
    ELSE LET json_df == prepare_json_df(json_dir, order)
             csv_df == prepare_csv_df(csv, CsvIds(csv))
             merged_df == join_outer_coalesce(csv_df, json_df, "nct_id", "json_nct_id")
             final_df == with_columns(coalesce_func(st, merged_df, uq), <<operator_source_logic(st)>>, uq)
             harmonized == IF Len(merged_df.rows) = 0 THEN EmptyOutput ELSE finalize_and_enforce_schema(final_df, now)
         IN IF merged_df.err # "" THEN Raised(merged_df.err)
            ELSE IF harmonized.err # "" THEN Raised(harmonized.err)
            ELSE [err |-> "", df |-> harmonized, input_csv_records |-> Len(csv_df.rows), input_json_records |-> Len(json_df.rows), output_records |-> Len(harmonized.rows)]

\* ------------------------------------------------------------------------
\* The provenance label alone, as each implementation adds it to the
\* coalesced table: final_df.with_columns(source_logic.alias("data_source"))
\* after the configuration of the strategy was built.
\* ------------------------------------------------------------------------
pipeline_data_source(df, strategy) == LET strategy_config == get_strategy_config(strategy)
                                      IN IF strategy_config.err # "" THEN Raise(strategy_config.err)
                                         ELSE with_columns(df, <<strategy_config.source_logic>>, <<>>)

operator_data_source(df, st) ==
    IF ~(OperatorImports \subseteq TypesModule) THEN Raise("ImportError")
    ELSE IF \E s2 \in DeduplicationStrategy : \E i \in 1..Len(OperatorMembers[s2]) : ~HasMember(DataSource, OperatorMembers[s2][i]) THEN Raise("AttributeError")
    ELSE with_columns(df, <<operator_source_logic(st)>>, <<>>)

\* ------------------------------------------------------------------------
\* create_shards (clintrai.metaflow.harmonization).  The shard directory is
\* a function from the shard id of a file shard_<id>.parquet to its rows;
\* a file of an earlier call stays unless the call writes it again.
\* ------------------------------------------------------------------------
NoShards == [err |-> "not_computed", shards |-> <<>>, files |-> <<>>]

\* (pl.col("nct_id").hash() % shard_count) of a row
shard_id(r, count) == hash(r["nct_id"]).n % count

\* create_shards with the shard taken from the position of the row
create_shards_by_position(dataframe, count, dir) ==
    IF dataframe.err # "" THEN [NoShards EXCEPT !.err = dataframe.err]
    ELSE IF "nct_id" \notin ColSet(dataframe) THEN [NoShards EXCEPT !.err = "ColumnNotFoundError"]
    ELSE LET idx(s) == SelectSeq([k \in 1..Len(dataframe.rows) |-> k], LAMBDA k : k % count = s)
             shard_data(s) == [j \in 1..Len(idx(s)) |-> dataframe.rows[idx(s)[j]] @@ ("shard_id" :> IntCell(s))]
             ids == SelectSeq([i \in 1..count |-> i - 1], LAMBDA s : Len(shard_data(s)) > 0)
         IN [err |-> "",
             shards |-> [k \in 1..Len(ids) |-> [shard_id |-> ids[k], path |-> ids[k], record_count |-> Len(shard_data(ids[k]))]],
             files |-> [s \in DOMAIN dir \cup Range(ids) |-> IF s \in Range(ids) THEN shard_data(s) ELSE dir[s]]]

\* create_shards with a descriptor for every bucket, empty or not
create_shards_every_bucket(dataframe, count, dir) ==
    IF dataframe.err # "" THEN [NoShards EXCEPT !.err = dataframe.err]
    ELSE IF "nct_id" \notin ColSet(dataframe) THEN [NoShards EXCEPT !.err = "ColumnNotFoundError"]
    ELSE LET shard_data(s) == [j \in 1..Len(SelectSeq(dataframe.rows, LAMBDA r : shard_id(r, count) = s)) |->
                                  SelectSeq(dataframe.rows, LAMBDA r : shard_id(r, count) = s)[j] @@ ("shard_id" :> IntCell(s))]
             ids == [i \in 1..count |-> i - 1]
         IN [err |-> "",
             shards |-> [k \in 1..Len(ids) |-> [shard_id |-> ids[k], path |-> ids[k], record_count |-> Len(shard_data(ids[k]))]],
             files |-> [s \in DOMAIN dir \cup Range(ids) |-> IF s \in Range(ids) THEN shard_data(s) ELSE dir[s]]]

\* dir: the files of the shard directory before the call
create_shards(dataframe, count, dir) ==
    IF dataframe.err # "" THEN [NoShards EXCEPT !.err = dataframe.err]
    ELSE IF "nct_id" \notin ColSet(dataframe) THEN [NoShards EXCEPT !.err = "ColumnNotFoundError"]
    ELSE LET shard_data(s) == [j \in 1..Len(SelectSeq(dataframe.rows, LAMBDA r : shard_id(r, count) = s)) |->
                                  SelectSeq(dataframe.rows, LAMBDA r : shard_id(r, count) = s)[j] @@ ("shard_id" :> IntCell(s))]
             ids == SelectSeq([i \in 1..count |-> i - 1], LAMBDA s : Len(shard_data(s)) > 0)
         IN [err |-> "",
             shards |-> [k \in 1..Len(ids) |-> [shard_id |-> ids[k], path |-> ids[k], record_count |-> Len(shard_data(ids[k]))]],
             files |-> [s \in DOMAIN dir \cup Range(ids) |-> IF s \in Range(ids) THEN shard_data(s) ELSE dir[s]]]

\* ------------------------------------------------------------------------
\* ClinicalTrialsHTTPClient.get (clintrai.api.client) under its tenacity
\* retry decorator.  What the transport does on a request is an event: a
\* response with a status and a text, or an httpx exception.
\* ------------------------------------------------------------------------
Response(status, text) == [kind |-> "response", status |-> status, text |-> text, exc |-> ""]

TransportFailure(exc) == [kind |-> "exception", status |-> 0, text |-> <<>>, exc |-> exc]

\* the parent class of each exception class the client meets
BaseOf == [RateLimitError |-> "ClinicalTrialsAPIError", NotFoundError |-> "ClinicalTrialsAPIError", ValidationError |-> "ClinicalTrialsAPIError",
    ServerError |-> "ClinicalTrialsAPIError", TimeoutError |-> "ClinicalTrialsAPIError", NetworkError |-> "ClinicalTrialsAPIError",
    ClinicalTrialsAPIError |-> "Exception", httpx_ConnectTimeout |-> "httpx_TimeoutException", httpx_ReadTimeout |-> "httpx_TimeoutException",
    httpx_TimeoutException |-> "httpx_TransportError", httpx_ConnectError |-> "httpx_NetworkError", httpx_ReadError |-> "httpx_NetworkError",
    httpx_NetworkError |-> "httpx_TransportError", httpx_TransportError |-> "httpx_RequestError", httpx_TooManyRedirects |-> "httpx_RequestError",
    httpx_RequestError |-> "Exception", CurlError |-> "Exception", Exception |-> ""]

RECURSIVE isinstance(_, _)
isinstance(cls, classes) == cls # "" /\ (cls \in classes \/ isinstance(BaseOf[cls], classes))

\* an exception of the library: its class, and status_code and
\* response_text as sequences that are empty for None
ApiError(cls, status_code, response_text) == [cls |-> cls, status_code |-> status_code, response_text |-> response_text]

NoError == ApiError("", <<>>, <<>>)

\* the branch of the status chain with the retried classes given no status
StatusClass_forgets_retried(status) == CASE status = 200 -> ""
                                         [] status = 404 -> "NotFoundError"
                                         [] status = 400 -> "ValidationError"
                                         [] status = 403 -> "ClinicalTrialsAPIError"
                                         [] OTHER -> "ClinicalTrialsAPIError"

\* the class raised for a status, "" for the status that returns
StatusClass(status) == CASE status = 200 -> ""
                         [] status = 404 -> "NotFoundError"
                         [] status = 400 -> "ValidationError"
                         [] status = 403 -> "ClinicalTrialsAPIError"
                         [] status = 429 -> "RateLimitError"
                         [] status >= 500 /\ status < 600 -> "ServerError"
                         [] OTHER -> "ClinicalTrialsAPIError"

\* the except clauses with the timeout left as the transport raised it
ConvertException_keeps_timeout(exc) == IF isinstance(exc, {"httpx_TimeoutException"}) THEN ApiError(exc, <<>>, <<>>)
                                        ELSE IF isinstance(exc, {"httpx_ConnectError"}) THEN ApiError("NetworkError", <<>>, <<>>)
                                        ELSE IF isinstance(exc, {"httpx_RequestError"}) THEN ApiError("NetworkError", <<>>, <<>>)
                                        ELSE ApiError(exc, <<>>, <<>>)

\* the except clauses, in their order
ConvertException(exc) == IF isinstance(exc, {"httpx_TimeoutException"}) THEN ApiError("TimeoutError", <<>>, <<>>)
                          ELSE IF isinstance(exc, {"httpx_ConnectError"}) THEN ApiError("NetworkError", <<>>, <<>>)
                          ELSE IF isinstance(exc, {"httpx_RequestError"}) THEN ApiError("NetworkError", <<>>, <<>>)
                          ELSE ApiError(exc, <<>>, <<>>)

\* One run of the body of get on what the transport did: the exception it
\* raises, NoError when it returns the response.
get_body(event) == IF event.kind = "exception" THEN ConvertException(event.exc)
                   ELSE IF StatusClass(event.status) = "" THEN NoError
                   ELSE ApiError(StatusClass(event.status), <<event.status>>, <<event.text>>)

stop_after_attempt == 3

\* retry_if_exception_type with the two API classes left out
retry_if_exception_type_transport_only == {"httpx_TimeoutException", "httpx_ConnectError"}

retry_if_exception_type == {"httpx_TimeoutException", "httpx_ConnectError", "RateLimitError", "ServerError"}

Max(a, b) == IF a >= b THEN a ELSE b

Min(a, b) == IF a <= b THEN a ELSE b

\* wait_exponential(multiplier=1, min=4, max=10) after the given attempt
wait_exponential(attempt_number) == Max(4, Min(2 ^ (attempt_number - 1), 10))

\* The call as the caller sees it: not started, waiting before a retry, or
\* done with a returned response or a raised exception; RetryError carries
\* the exception of the last attempt.
NoHttp == [phase |-> "idle", attempt_number |-> 0, requests |-> <<>>, attempts |-> <<>>, slept |-> 0, returned |-> <<>>, raised |-> "", last_attempt |-> NoError]

\* the retrying call that allows one attempt more before it gives up
attempt_stops_late(h, event) ==
    LET n == h.attempt_number + 1
        e == get_body(event)
        made == [h EXCEPT !.attempt_number = n, !.requests = Append(@, event), !.attempts = Append(@, e), !.last_attempt = e]
    IN IF e = NoError THEN [made EXCEPT !.phase = "done", !.returned = <<event>>]
       ELSE IF ~isinstance(e.cls, retry_if_exception_type) THEN [made EXCEPT !.phase = "done", !.raised = e.cls]
       ELSE IF n >= stop_after_attempt + 1 THEN [made EXCEPT !.phase = "done", !.raised = "RetryError"]
       ELSE [made EXCEPT !.phase = "waiting", !.slept = @ + wait_exponential(n)]

\* One attempt of the retrying call and what tenacity does with its outcome
attempt(h, event) ==
    LET n == h.attempt_number + 1
        e == get_body(event)
        made == [h EXCEPT !.attempt_number = n, !.requests = Append(@, event), !.attempts = Append(@, e), !.last_attempt = e]
    IN IF e = NoError THEN [made EXCEPT !.phase = "done", !.returned = <<event>>]
       ELSE IF ~isinstance(e.cls, retry_if_exception_type) THEN [made EXCEPT !.phase = "done", !.raised = e.cls]
       ELSE IF n >= stop_after_attempt THEN [made EXCEPT !.phase = "done", !.raised = "RetryError"]
       ELSE [made EXCEPT !.phase = "waiting", !.slept = @ + wait_exponential(n)]

\* ------------------------------------------------------------------------
\* HybridHTTPClient.get (clintrai.api.hybrid_client): the request goes to
\* the curl_cffi session for an impersonated domain and to httpx otherwise;
\* the status chain is that of ClinicalTrialsHTTPClient.get, line for line.
\* ------------------------------------------------------------------------
\* a CurlError and the words of its message
CurlFailure(msg) == [kind |-> "exception", status |-> 0, text |-> msg, exc |-> "CurlError"]

\* the except clauses, in their order: httpx, then CurlError by the words
\* of its message, then any other exception
HybridConvertException(event) == IF isinstance(event.exc, {"httpx_TimeoutException"}) THEN ApiError("TimeoutError", <<>>, <<>>)
                                 ELSE IF isinstance(event.exc, {"httpx_ConnectError"}) THEN ApiError("NetworkError", <<>>, <<>>)
                                 ELSE IF isinstance(event.exc, {"httpx_RequestError"}) THEN ApiError("NetworkError", <<>>, <<>>)
                                 ELSE IF isinstance(event.exc, {"CurlError"}) THEN (IF Contains(event.text, "timeout") THEN ApiError("TimeoutError", <<>>, <<>>)
                                                                                     ELSE ApiError("NetworkError", <<>>, <<>>))
                                 ELSE ApiError("NetworkError", <<>>, <<>>)

hybrid_get_body(event) == IF event.kind = "exception" THEN HybridConvertException(event)
                          ELSE IF StatusClass(event.status) = "" THEN NoError
                          ELSE ApiError(StatusClass(event.status), <<event.status>>, <<event.text>>)

hybrid_stop_after_attempt == 3

hybrid_retry_if_exception_type == {"TimeoutError", "NetworkError", "RateLimitError", "ServerError"}

hybrid_attempt(h, event) ==
    LET n == h.attempt_number + 1
        e == hybrid_get_body(event)
        made == [h EXCEPT !.attempt_number = n, !.requests = Append(@, event), !.attempts = Append(@, e), !.last_attempt = e]
    IN IF e = NoError THEN [made EXCEPT !.phase = "done", !.returned = <<event>>]
       ELSE IF ~isinstance(e.cls, hybrid_retry_if_exception_type) THEN [made EXCEPT !.phase = "done", !.raised = e.cls]
       ELSE IF n >= hybrid_stop_after_attempt THEN [made EXCEPT !.phase = "done", !.raised = "RetryError"]
       ELSE [made EXCEPT !.phase = "waiting", !.slept = @ + wait_exponential(n)]

\* what the upstream does at each request, and the client the hybrid picks
\* for the URL
NoUpstream == [script |-> <<>>, client |-> "httpx"]

\* _get_client_for_url and the request made with it: on the curl_cffi
\* session a timeout or a connection failure is a CurlError
hybrid_request(client, event) == IF client = "httpx" \/ event.kind = "response" THEN event
                                 ELSE IF isinstance(event.exc, {"httpx_TimeoutException"}) THEN CurlFailure(<<"timeout">>)
                                 ELSE CurlFailure(<<"connect">>)

\* ------------------------------------------------------------------------
\* download_documents (clintrai.processing.documents).  The tasks of
\* asyncio.gather run on one event loop: a task runs alone from one await
\* to the next.  A task waits for the semaphore, enters the client, runs
\* _download_single_document up to `await client.get`, gets the outcome of
\* the request and runs to the return, and leaves the two `async with`
\* blocks.  files is the set of local paths that exist.
\* ------------------------------------------------------------------------
max_size_mb == 50

WordChars == {"a", "b", "c", "1", "N", "C", "T"}

\* re.sub(r"[^\w\-_\.]", "_", filename)
safe_filename(filename) == [i \in 1..Len(filename) |-> IF filename[i] \in WordChars \cup {"-", "_", "."} THEN filename[i] ELSE "_"]

\* study_dir / safe_filename under the output directory
_create_safe_path(nct_id, filename) == <<nct_id, safe_filename(filename)>>

\* an entry of extract_document_info; local_path is empty for None
DocumentInfo(nct_id, filename) == [nct_id |-> nct_id, filename |-> filename, local_path |-> <<>>, status |-> "pending", error |-> ""]

\* what `await client.get` and raise_for_status give: the content with its
\* size in MB, or an exception
Content(mb) == [kind |-> "content", mb |-> mb]

Failing(exc) == [kind |-> exc, mb |-> 0]

\* _download_single_document up to the request: the document is skipped
\* when its local path exists
SkipsExisting(doc_info, files) == _create_safe_path(doc_info.nct_id, doc_info.filename) \in files

skipped(doc_info) == [doc_info EXCEPT !.local_path = <<_create_safe_path(doc_info.nct_id, doc_info.filename)>>, !.status = "skipped"]

\* _download_single_document from the response to the return
downloaded(doc_info, response) ==
    CASE response.kind = "httpx_TimeoutException" -> [doc_info EXCEPT !.status = "failed", !.error = "Download timeout"]
      [] response.kind = "httpx_HTTPStatusError" -> [doc_info EXCEPT !.status = "failed", !.error = "HTTP"]
      [] response.kind = "Exception" -> [doc_info EXCEPT !.status = "failed", !.error = "Exception"]
      [] response.kind = "content" /\ response.mb > max_size_mb -> [doc_info EXCEPT !.status = "failed", !.error = "File too large"]
      [] response.kind = "content" /\ response.mb <= max_size_mb -> [doc_info EXCEPT !.local_path = <<_create_safe_path(doc_info.nct_id, doc_info.filename)>>, !.status = "downloaded"]

\* local_path.write_bytes(content) happens for a content within the limit
Writes(response) == response.kind = "content" /\ response.mb <= max_size_mb

\* a task of gather: where it is, whether it made the request, what the
\* request gave, whether it wrote the file, and the exception it ended
\* with, if any
NoResponse == [kind |-> "none", mb |-> 0]

NoTask == [pc |-> "waiting", fetched |-> FALSE, response |-> NoResponse, wrote |-> FALSE, raised |-> ""]

NoDownload == [phase |-> "idle", max_concurrent |-> 1, semaphore |-> 0, documents |-> <<>>, tasks |-> <<>>, files |-> {}, results |-> <<>>]

\* the loop over the outcomes of gather with the raised ones left out
results_without_raised(documents, tasks) == SelectSeq([i \in 1..Len(documents) |-> IF tasks[i].raised # "" THEN [documents[i] EXCEPT !.status = ""] ELSE documents[i]], LAMBDA d : d.status # "")

\* the loop over the outcomes of gather(return_exceptions=True): a task
\* that raised gives a copy of its document marked failed
results_of_gather(documents, tasks) == [i \in 1..Len(documents) |-> IF tasks[i].raised # "" THEN [documents[i] EXCEPT !.status = "failed", !.error = tasks[i].raised] ELSE documents[i]]

\* ------------------------------------------------------------------------
\* Bounded inputs
\* ------------------------------------------------------------------------
MaxCsvRows == 2

MaxClock == 1

NCT1 == <<"N", "C", "T", "1">>

NCT2 == <<"N", "C", "T", "2">>

\* a file of the directory that the NCT*.json pattern does not match
OtherStem == <<"X", "1">>

TitleA == <<"A">>

TitleB == <<"B">>

Tokens == {<<"D">>, <<"H">>}

Perms(S) == {q \in [1..Cardinality(S) -> S] : Range(q) = S}

UniqueOrders == Perms(Tokens)

Clock == 0..MaxClock

\* The header of the registry export, cut to the columns the coalescing
\* reads, and the same header with two columns already under their
\* harmonized names.
StandardHeader == <<"NCT Number", "Study Title", "Study Status", "Study Results", "Study Type", "Brief Summary", "Conditions", "Interventions", "Sex", "Enrollment">>

HarmonizedHeader == <<"NCT Number", "Study Title", "Study Status", "Study Results", "study_type", "brief_summary", "Conditions", "Interventions", "Sex", "Enrollment">>

Headers == {StandardHeader, HarmonizedHeader}

\* One CSV row: the identifier, the title, the list cell of Conditions and
\* whether the other cells are filled.
CsvRow(header, id, title, conds, filled) ==
    [c \in Range(header) |->
        CASE c = "NCT Number" -> Str(id)
          [] c = "Study Title" -> title
          [] c = "Conditions" -> conds
          [] c = "Interventions" -> IF IsNull(conds) THEN Null ELSE Str(<<"H">>)
          [] c = "Enrollment" -> IF filled THEN IntCell(5) ELSE Null
          [] c = "Study Results" -> IF filled THEN Str(<<"Y", "E", "S">>) ELSE Null
          [] c = "Study Status" -> IF filled THEN Str(<<"c">>) ELSE Null
          [] c = "Sex" -> IF filled THEN Str(<<"m">>) ELSE Null
          [] OTHER -> IF filled THEN Str(<<"x">>) ELSE Null]

\* ------------------------------------------------------------------------
\* The thread pool of _load_and_flatten_json_records, step by step: one
\* future per requested identifier, run by a worker thread, and the loop
\* of the calling thread over as_completed that appends to records.
\* futures maps each identifier to the state of its future and the value
\* _process_file returned (<<>> for None), completed is the order in which
\* as_completed yielded.
\* ------------------------------------------------------------------------
max_workers == 8

NoPool == [phase |-> "idle", futures |-> <<>>, records |-> <<>>, completed |-> <<>>]

\* executor.submit for every identifier of nct_ids
submit(nct_ids) == [phase |-> "collecting", futures |-> [i \in nct_ids |-> [state |-> "pending", result |-> <<>>]], records |-> <<>>, completed |-> <<>>]

Running(p) == {i \in DOMAIN p.futures : p.futures[i].state = "running"}

\* _process_file: None for a missing file and for one that fails to load
\* or validate, else the record flattened under the requested identifier
_process_file(json_dir, nct_id) == IF ProcessOk(json_dir, nct_id) THEN <<_flatten_json_record(nct_id, json_dir[nct_id])>> ELSE <<>>

\* the loop body with the list rebound instead of appended to
collect_rebinds_records(p, i) == [p EXCEPT !.futures[i].state = "yielded", !.completed = Append(@, i),
                                           !.records = IF p.futures[i].result # <<>> THEN p.futures[i].result ELSE @]

\* one turn of `for future in as_completed(...)`: result = future.result();
\* if result: records.append(result)
collect(p, i) == [p EXCEPT !.futures[i].state = "yielded", !.completed = Append(@, i),
                           !.records = IF p.futures[i].result # <<>> THEN @ \o p.futures[i].result ELSE @]

\* the end of prepare_json_df on the records that were loaded
DataFrameOfRecords(json_records) == IF json_records = <<>> THEN KeyOnlyFrame("json_nct_id")
                                    ELSE Frame(FlatColumns, [c \in Range(FlatColumns) |-> InferDtype(json_records, c)], json_records)

CsvListCells == {Null, Str(<<"D">>), Str(<<"H", "|", "D">>)}

CsvTitles == {Null, Str(TitleA)}

AllSections == {"protocolSection", "identificationModule", "statusModule", "designModule", "descriptionModule", "eligibilityModule", "conditionsModule",
    "armsInterventionsModule", "enrollmentInfo", "startDateStruct", "completionDateStruct", "derivedSection", "conditionBrowseModule", "documentSection",
    "largeDocumentModule"}

\* The leaves of a document: the official title, the conditions and
\* whether the other leaves are filled.
Leaves(title, conds, filled) ==
    [officialTitle |-> title, briefTitle |-> IF filled THEN Str(<<"b">>) ELSE Null, acronym |-> Null,
     overallStatus |-> IF filled THEN Str(<<"r">>) ELSE Null, studyType |-> IF filled THEN Str(<<"i">>) ELSE Null, phases |-> List(<<>>),
     hasResults |-> Bool(filled), briefSummary |-> IF filled THEN Str(<<"s">>) ELSE Null, detailedDescription |-> IF filled THEN Str(<<"d">>) ELSE Null,
     conditions |-> conds, interventions |-> IF conds.l = <<>> THEN List(<<>>) ELSE List(<< <<"H">>, <<>> >>), meshes |-> List(<< <<"M">> >>),
     sex |-> IF filled THEN Str(<<"f">>) ELSE Null, minimumAge |-> Null, maximumAge |-> Null, healthyVolunteers |-> Null,
     count |-> IF filled THEN IntCell(7) ELSE Null, startDate |-> Null, completionDate |-> Null, largeDocs |-> List(<<>>)]

JsonLists == {List(<<>>), List(<< <<"D">>, <<"H">> >>)}

JsonTitles == {Null, Str(TitleB)}

ValidDocs == {Doc(TRUE, AllSections, Leaves(t, c, f)) : t \in JsonTitles, c \in JsonLists, f \in BOOLEAN} \cup {Doc(TRUE, {}, Leaves(Str(TitleB), List(<<>>), TRUE))}

BadDoc == Doc(FALSE, {}, Leaves(Null, List(<<>>), FALSE))

Files == {NoFile, BadDoc} \cup ValidDocs

\* ------------------------------------------------------------------------
\* State
\* ------------------------------------------------------------------------
VARIABLES csv_file, json_dir, strategy, pc, overlap_stats, result, csv_df, json_df, merged_df, final_df, output_df, shard_count, runs, http, pool, hung, hybrid, upstream, dl

vars == <<csv_file, json_dir, strategy, pc, overlap_stats, result, csv_df, json_df, merged_df, final_df, output_df, shard_count, runs, http, pool, hung, hybrid, upstream, dl>>

sources == <<csv_file, json_dir, strategy>>

frames == <<csv_df, json_df, merged_df, final_df, output_df>>

CsvFile(exists, header, rows) == [exists |-> exists, header |-> header, rows |-> rows]

\* the sharding step and the API client, not yet used
others == <<shard_count, runs, http, pool, hung, hybrid, upstream, dl>>

\* the identifiers whose file never finishes loading: open and json.load
\* are called without any timeout
NoHung == {}

NoRuns == shard_count = 1 /\ runs = <<>> /\ http = NoHttp /\ pool = NoPool /\ hung = NoHung /\ hybrid = NoHttp /\ upstream = NoUpstream /\ dl = NoDownload

NoFrames == csv_df = NoFrame /\ json_df = NoFrame /\ merged_df = NoFrame /\ final_df = NoFrame /\ output_df = NoFrame

\* ------------------------------------------------------------------------
\* The flow: analyze_data_overlap, then harmonize_data
\* (clintrai.metaflow.clinical_trials_flow)
\* ------------------------------------------------------------------------
FlowRows(header) == {CsvRow(header, id, t, Null, FALSE) : id \in {NCT1, NCT2}, t \in CsvTitles} \cup {CsvRow(header, OtherStem, Null, Null, FALSE)}

FlowFiles == {NoFile, BadDoc, Doc(TRUE, AllSections, Leaves(Str(TitleB), List(<<>>), TRUE))}

FlowCsvFiles == {CsvFile(FALSE, StandardHeader, <<>>)} \cup UNION {UNION {{CsvFile(TRUE, h, rows) : rows \in [1..n -> FlowRows(h)]} : n \in 0..MaxCsvRows} : h \in Headers}

Init == /\ csv_file \in FlowCsvFiles
        /\ json_dir \in {d \in [{NCT1, NCT2, OtherStem} -> FlowFiles] : d[OtherStem] \in {NoFile, BadDoc}}
        /\ strategy \in DeduplicationStrategy
        /\ pc = "start"
        /\ overlap_stats = NoStats
        /\ result = NoResult
        /\ NoFrames
        /\ NoRuns

AnalyzeOverlap == /\ pc = "start"
                  /\ overlap_stats' = analyze_overlap(csv_file, json_dir)
                  /\ pc' = IF overlap_stats'.err = "" THEN "analyzed" ELSE "aborted"
                  /\ UNCHANGED <<others, sources, result, frames>>

HarmonizeData == /\ pc = "analyzed"
                 /\ \E order \in Perms(overlap_stats.overlap \cup overlap_stats.json_only), now \in Clock, uq \in UniqueOrders :
                        result' = harmonize_data(csv_file, json_dir, overlap_stats, strategy, order, now, uq)
                 /\ pc' = "harmonized"
                 /\ UNCHANGED <<others, sources, overlap_stats, frames>>

OperatorExecute == /\ pc = "start"
                   /\ \E order \in Perms(GlobNCT(json_dir)), now \in Clock, uq \in UniqueOrders :
                          result' = operator_execute(csv_file, json_dir, strategy, order, now, uq)
                   /\ pc' = "executed"
                   /\ UNCHANGED <<others, sources, overlap_stats, frames>>

Next == AnalyzeOverlap \/ HarmonizeData \/ OperatorExecute

Spec == Init /\ [][Next]_vars

\* ------------------------------------------------------------------------
\* The stages of the harmonization applied one after the other to the
\* record NCT1, beside an optional record NCT2 in either source:
\* prepare_csv_df and prepare_json_df, the outer join, the coalescing
\* function of the strategy, and finalize_and_enforce_schema on the frame
\* as it is after the coalescing or after the caller has put a data_source
\* column on it.
\* ------------------------------------------------------------------------
Companions == {"none", "csv", "json", "both"}

CompanionRow(h) == CsvRow(h, NCT2, Str(<<"Z">>), Str(<<"D">>), TRUE)

CompanionDoc == Doc(TRUE, AllSections, Leaves(Str(<<"W">>), List(<< <<"H">> >>), TRUE))

FocusRows(h) == {<<>>} \cup {<<CsvRow(h, NCT1, t, c, f)>> : t \in CsvTitles, c \in CsvListCells, f \in BOOLEAN}

StageLabels == {Str(DataSource["CSV_ONLY"]), Null}

InitStages == /\ \E h \in Headers, comp \in Companions :
                    /\ \E rows \in FocusRows(h) : csv_file = CsvFile(TRUE, h, rows \o (IF comp \in {"csv", "both"} THEN <<CompanionRow(h)>> ELSE <<>>))
                    /\ \E doc \in Files : json_dir = [i \in {NCT1, NCT2} |-> IF i = NCT1 THEN doc ELSE IF comp \in {"json", "both"} THEN CompanionDoc ELSE NoFile]
              /\ strategy \in DeduplicationStrategy
              /\ pc = "start"
              /\ overlap_stats = NoStats
              /\ result = NoResult
              /\ NoFrames
              /\ NoRuns

Prepare == /\ pc = "start"
           /\ \E order \in Perms(GlobNCT(json_dir)) : json_df' = prepare_json_df(json_dir, order)
           /\ csv_df' = prepare_csv_df(csv_file, CsvIds(csv_file))
           /\ pc' = "prepared"
           /\ UNCHANGED <<others, sources, overlap_stats, result, merged_df, final_df, output_df>>

Merge == /\ pc = "prepared"
         /\ merged_df' = join_outer_coalesce(csv_df, json_df, "nct_id", "json_nct_id")
         /\ pc' = "merged"
         /\ UNCHANGED <<others, sources, overlap_stats, result, csv_df, json_df, final_df, output_df>>

EmptyMerge == /\ pc = "merged"
              /\ Len(merged_df.rows) = 0
              /\ output_df' = EmptyOutput
              /\ pc' = "finalized"
              /\ UNCHANGED <<others, sources, overlap_stats, result, csv_df, json_df, merged_df, final_df>>

Coalesce == /\ pc = "merged"
            /\ Len(merged_df.rows) > 0
            /\ \E uq \in UniqueOrders : final_df' = coalesce_func(strategy, merged_df, uq)
            /\ pc' = "coalesced"
            /\ UNCHANGED <<others, sources, overlap_stats, result, csv_df, json_df, merged_df, output_df>>

Label == /\ pc = "coalesced"
         /\ final_df.err = ""
         /\ \E lab \in StageLabels : final_df' = with_columns(final_df, <<Expr("lit", "data_source", "", "", <<lab>>)>>, <<>>)
         /\ pc' = "labelled"
         /\ UNCHANGED <<others, sources, overlap_stats, result, csv_df, json_df, merged_df, output_df>>

Finalize == /\ pc \in {"coalesced", "labelled"}
            /\ final_df.err = ""
            /\ \E now \in Clock : output_df' = finalize_and_enforce_schema(final_df, now)
            /\ pc' = "finalized"
            /\ UNCHANGED <<others, sources, overlap_stats, result, csv_df, json_df, merged_df, final_df>>

NextStages == Prepare \/ Merge \/ EmptyMerge \/ Coalesce \/ Label \/ Finalize

StageSpec == InitStages /\ [][NextStages]_vars

\* ------------------------------------------------------------------------
\* create_shards called on a table, and called again on the same table
\* with the same shard count and output directory.
\* ------------------------------------------------------------------------
MaxShardRows == 3

MaxShards == 3

MaxRuns == 2

NCT3 == <<"N", "C", "T", "3">>

ShardRow(id) == [nct_id |-> Str(id), title |-> Str(TitleA)]

ShardTables == UNION {{Frame(<<"nct_id", "title">>, [c \in {"nct_id", "title"} |-> "Utf8"], rows) : rows \in [1..n -> {ShardRow(id) : id \in {NCT1, NCT2, NCT3, OtherStem}}]} : n \in 0..MaxShardRows}

\* no sources and no frames: the specification is about something else
NoSources == /\ csv_file = CsvFile(FALSE, StandardHeader, <<>>)
             /\ json_dir = [i \in {NCT1} |-> NoFile]
             /\ strategy = "json_priority"
             /\ overlap_stats = NoStats
             /\ result = NoResult

\* the shard directory as the calls so far have left it
ShardDir == IF runs = <<>> THEN <<>> ELSE runs[Len(runs)].files

InitShards == /\ NoSources
              /\ pc = "start"
              /\ csv_df = NoFrame /\ json_df = NoFrame /\ merged_df = NoFrame /\ final_df = NoFrame
              /\ output_df \in ShardTables
              /\ shard_count \in 1..MaxShards
              /\ runs = <<>>
              /\ http = NoHttp
              /\ pool = NoPool
              /\ hung = NoHung
              /\ hybrid = NoHttp
              /\ upstream = NoUpstream
              /\ dl = NoDownload

CreateShards == /\ Len(runs) < MaxRuns
                /\ runs' = Append(runs, create_shards(output_df, shard_count, ShardDir))
                /\ pc' = "sharded"
                /\ UNCHANGED <<sources, overlap_stats, result, frames, shard_count, http, pool, hung, hybrid, upstream, dl>>

NextShards == CreateShards

ShardSpec == InitShards /\ [][NextShards]_vars

\* ------------------------------------------------------------------------
\* create_shards called again and again into one output directory, each
\* call with a table and a shard count of its own.
\* ------------------------------------------------------------------------
MaxReshardRows == 2

ReshardTables == UNION {{Frame(<<"nct_id", "title">>, [c \in {"nct_id", "title"} |-> "Utf8"], rows) : rows \in [1..n -> {ShardRow(id) : id \in {NCT1, NCT2}}]} : n \in 0..MaxReshardRows}

InitReshard == /\ NoSources
               /\ pc = "start"
               /\ csv_df = NoFrame /\ json_df = NoFrame /\ merged_df = NoFrame /\ final_df = NoFrame /\ output_df = NoFrame
               /\ NoRuns

Reshard == /\ Len(runs) < MaxRuns
           /\ \E dataframe \in ReshardTables, count \in 1..MaxShards :
                 /\ output_df' = dataframe
                 /\ shard_count' = count
                 /\ runs' = Append(runs, create_shards(dataframe, count, ShardDir))
           /\ pc' = "sharded"
           /\ UNCHANGED <<sources, overlap_stats, result, csv_df, json_df, merged_df, final_df, http, pool, hung, hybrid, upstream, dl>>

NextReshard == Reshard

ReshardSpec == InitReshard /\ [][NextReshard]_vars

\* ------------------------------------------------------------------------
\* ClinicalTrialsHTTPClient.get called once: the first attempt, and the
\* attempts tenacity makes after waiting.
\* ------------------------------------------------------------------------
Statuses == {200, 204, 301, 400, 403, 404, 429, 500, 503, 599, 600}

Texts == {<<>>, <<"t">>}

TransportExceptions == {"httpx_ConnectTimeout", "httpx_ReadTimeout", "httpx_ConnectError", "httpx_ReadError", "httpx_TooManyRedirects"}

Events == {Response(st, tx) : st \in Statuses, tx \in Texts} \cup {TransportFailure(x) : x \in TransportExceptions}

InitClient == /\ NoSources
              /\ pc = "start"
              /\ NoFrames
              /\ shard_count = 1
              /\ runs = <<>>
              /\ http = NoHttp
              /\ pool = NoPool
              /\ hung = NoHung
              /\ hybrid = NoHttp
              /\ upstream = NoUpstream
              /\ dl = NoDownload

Get == /\ http.phase = "idle"
       /\ \E event \in Events : http' = attempt(http, event)
       /\ UNCHANGED <<sources, pc, overlap_stats, result, frames, shard_count, runs, pool, hung, hybrid, upstream, dl>>

Retry == /\ http.phase = "waiting"
         /\ \E event \in Events : http' = attempt(http, event)
         /\ UNCHANGED <<sources, pc, overlap_stats, result, frames, shard_count, runs, pool, hung, hybrid, upstream, dl>>

NextClient == Get \/ Retry

ClientSpec == InitClient /\ [][NextClient]_vars

\* ------------------------------------------------------------------------
\* One document with any well-formed subset of its sections, loaded and
\* flattened by prepare_json_df.
\* ------------------------------------------------------------------------
\* the section that holds each section, "" for a section of the root
SectionParent == [protocolSection |-> "", derivedSection |-> "", documentSection |-> "", identificationModule |-> "protocolSection",
    statusModule |-> "protocolSection", designModule |-> "protocolSection", descriptionModule |-> "protocolSection",
    eligibilityModule |-> "protocolSection", conditionsModule |-> "protocolSection", armsInterventionsModule |-> "protocolSection",
    enrollmentInfo |-> "designModule", startDateStruct |-> "statusModule", completionDateStruct |-> "statusModule",
    conditionBrowseModule |-> "derivedSection", largeDocumentModule |-> "documentSection"]

DocSections == {S \in SUBSET AllSections : \A x \in S : SectionParent[x] = "" \/ SectionParent[x] \in S}

\* every leaf filled; <<>> in a list of names is an entry without a name
FullLeaves == [nctId |-> Str(NCT1), officialTitle |-> Str(TitleB), briefTitle |-> Str(<<"b">>), acronym |-> Str(<<"a">>),
     overallStatus |-> Str(<<"r">>), studyType |-> Str(<<"i">>), phases |-> List(<< <<"p">> >>),
     hasResults |-> Bool(TRUE), briefSummary |-> Str(<<"s">>), detailedDescription |-> Str(<<"d">>),
     conditions |-> List(<< <<"H">>, <<"D">> >>), interventions |-> List(<< <<"H">>, <<>>, <<"D">> >>), meshes |-> List(<< <<>>, <<"M">> >>),
     sex |-> Str(<<"f">>), minimumAge |-> Str(<<"1">>), maximumAge |-> Str(<<"9">>), healthyVolunteers |-> Bool(FALSE),
     count |-> IntCell(7), startDate |-> Str(<<"1">>), completionDate |-> Str(<<"2">>), largeDocs |-> List(<< <<"F">>, <<>>, <<"G">> >>)]

\* the leaves of the files: all filled, none filled but the identifier, and
\* all filled but the identifier
FlattenLeaves == {FullLeaves, Leaves(Null, List(<<>>), FALSE) @@ ("nctId" :> Str(NCT1)), [FullLeaves EXCEPT !["nctId"] = Null]}

InitFlatten == /\ csv_file = CsvFile(FALSE, StandardHeader, <<>>)
               /\ \E S \in DocSections, leaves \in FlattenLeaves : json_dir = [i \in {NCT1} |-> Doc(model_validate(S, leaves), S, leaves)]
               /\ strategy = "json_priority"
               /\ overlap_stats = NoStats
               /\ result = NoResult
               /\ pc = "start"
               /\ NoFrames
               /\ NoRuns

LoadDocument == /\ pc = "start"
                /\ json_df' = prepare_json_df(json_dir, <<NCT1>>)
                /\ pc' = "prepared"
                /\ UNCHANGED <<others, sources, overlap_stats, result, csv_df, merged_df, final_df, output_df>>

NextFlatten == LoadDocument

FlattenSpec == InitFlatten /\ [][NextFlatten]_vars

\* ------------------------------------------------------------------------
\* The pipeline run again on the same inputs: the flow from the overlap
\* analysis to the shards, and the last stage of harmonize_data,
\* finalize_and_enforce_schema, followed by create_shards, on the frame
\* the earlier stages make of the inputs.
\* ------------------------------------------------------------------------
RerunRows(h) == {<<>>} \cup {<<CsvRow(h, NCT1, t, Str(<<"H", "|", "D">>), TRUE)>> : t \in CsvTitles}

RerunDocs == {NoFile, BadDoc, Doc(TRUE, AllSections, Leaves(Str(TitleB), List(<< <<"D">>, <<"H">> >>), TRUE))}

\* the frame harmonize_data has before its last stage
CoalescedFrame(csv, dir, st) ==
    LET ids == SelectSeq(<<NCT1, NCT2>>, LAMBDA i : i \in GlobNCT(dir))
        merged == join_outer_coalesce(prepare_csv_df(csv, CsvIds(csv)), prepare_json_df(dir, ids), "nct_id", "json_nct_id")
    IN IF merged.err = "" /\ Len(merged.rows) = 0 THEN Raise("empty") ELSE coalesce_func(st, merged, <<<<"D">>, <<"H">>>>)

RunDir == IF runs = <<>> THEN <<>> ELSE runs[Len(runs)].sharding.files

InitRerun == /\ \E h \in Headers : \E rows \in RerunRows(h) : csv_file = CsvFile(TRUE, h, rows)
             /\ \E doc \in RerunDocs : json_dir = [i \in {NCT1, NCT2} |-> IF i = NCT1 THEN doc ELSE NoFile]
             /\ strategy \in DeduplicationStrategy
             /\ pc = "start"
             /\ overlap_stats = NoStats
             /\ result = NoResult
             /\ csv_df = NoFrame /\ json_df = NoFrame /\ merged_df = NoFrame /\ output_df = NoFrame
             /\ final_df = CoalescedFrame(csv_file, json_dir, strategy)
             /\ shard_count \in 1..MaxShards
             /\ runs = <<>>
             /\ http = NoHttp
             /\ pool = NoPool
             /\ hung = NoHung
             /\ hybrid = NoHttp
             /\ upstream = NoUpstream
             /\ dl = NoDownload

\* analyze_data_overlap, harmonize_data and create_shards of the flow
RunPipeline == /\ Len(runs) < MaxRuns
               /\ \E order \in Perms(GlobNCT(json_dir)), now \in Clock, uq \in UniqueOrders :
                      LET stats == analyze_overlap(csv_file, json_dir)
                          r == IF stats.err # "" THEN Raised(stats.err) ELSE harmonize_data(csv_file, json_dir, stats, strategy, order, now, uq)
                      IN runs' = Append(runs, [kind |-> "flow", err |-> r.err, df |-> r.df,
                                               sharding |-> IF r.err = "" THEN create_shards(r.df, shard_count, RunDir) ELSE [NoShards EXCEPT !.files = RunDir]])
               /\ pc' = "ran"
               /\ UNCHANGED <<sources, overlap_stats, result, frames, shard_count, http, pool, hung, hybrid, upstream, dl>>

RunFinalize == /\ Len(runs) < MaxRuns
               /\ final_df.err = ""
               /\ \E now \in Clock :
                      LET df == finalize_and_enforce_schema(final_df, now)
                      IN runs' = Append(runs, [kind |-> "finalize", err |-> df.err, df |-> df, sharding |-> create_shards(df, shard_count, RunDir)])
               /\ pc' = "ran"
               /\ UNCHANGED <<sources, overlap_stats, result, frames, shard_count, http, pool, hung, hybrid, upstream, dl>>

NextRerun == RunPipeline \/ RunFinalize

RerunSpec == InitRerun /\ [][NextRerun]_vars

\* ------------------------------------------------------------------------
\* prepare_json_df with its worker threads: the requested identifiers are
\* submitted, each file is processed by a worker, and the calling thread
\* collects the results as they complete.
\* ------------------------------------------------------------------------
LoadFiles == {NoFile, BadDoc, CompanionDoc}

LoadIds == {NCT1, NCT2, NCT3}

InitLoad == /\ csv_file = CsvFile(FALSE, StandardHeader, <<>>)
            /\ json_dir \in [LoadIds -> LoadFiles]
            /\ strategy = "json_priority"
            /\ overlap_stats = NoStats
            /\ result = NoResult
            /\ pc = "start"
            /\ NoFrames
            /\ NoRuns

\* prepare_json_df is entered: no identifier returns at once
Submit == /\ pool.phase = "idle"
          /\ \E nct_ids \in SUBSET LoadIds :
                IF nct_ids = {} THEN json_df' = KeyOnlyFrame("json_nct_id") /\ pool' = [pool EXCEPT !.phase = "returned"]
                ELSE pool' = submit(nct_ids) /\ UNCHANGED json_df
          /\ UNCHANGED <<shard_count, runs, http, sources, pc, overlap_stats, result, csv_df, merged_df, final_df, output_df, hung, hybrid, upstream, dl>>

\* a free worker takes a pending future
WorkerStart == /\ pool.phase = "collecting"
               /\ Cardinality(Running(pool)) < max_workers
               /\ \E i \in DOMAIN pool.futures :
                     /\ pool.futures[i].state = "pending"
                     /\ pool' = [pool EXCEPT !.futures[i].state = "running"]
               /\ UNCHANGED <<shard_count, runs, http, sources, pc, overlap_stats, result, frames, hung, hybrid, upstream, dl>>

\* the worker returns from _process_file, which it never does for a file
\* whose load hangs
WorkerFinish == /\ pool.phase = "collecting"
                /\ \E i \in Running(pool) \ hung : pool' = [pool EXCEPT !.futures[i] = [state |-> "done", result |-> _process_file(json_dir, i)]]
                /\ UNCHANGED <<shard_count, runs, http, sources, pc, overlap_stats, result, frames, hung, hybrid, upstream, dl>>

\* as_completed yields a finished future to the calling thread
Collect == /\ pool.phase = "collecting"
           /\ \E i \in DOMAIN pool.futures :
                 /\ pool.futures[i].state = "done"
                 /\ pool' = collect(pool, i)
           /\ UNCHANGED <<shard_count, runs, http, sources, pc, overlap_stats, result, frames, hung, hybrid, upstream, dl>>

\* every future was yielded: the records become the table
Return == /\ pool.phase = "collecting"
          /\ \A i \in DOMAIN pool.futures : pool.futures[i].state = "yielded"
          /\ json_df' = DataFrameOfRecords(pool.records)
          /\ pool' = [pool EXCEPT !.phase = "returned"]
          /\ UNCHANGED <<shard_count, runs, http, sources, pc, overlap_stats, result, csv_df, merged_df, final_df, output_df, hung, hybrid, upstream, dl>>

NextLoad == Submit \/ WorkerStart \/ WorkerFinish \/ Collect \/ Return

LoadSpec == InitLoad /\ [][NextLoad]_vars

\* ------------------------------------------------------------------------
\* The same with files whose load may hang.  Every thread that can take a
\* step eventually takes it: the calling thread and the workers are
\* scheduled by the operating system.
\* ------------------------------------------------------------------------
MaxHung == 1

InitHang == /\ csv_file = CsvFile(FALSE, StandardHeader, <<>>)
            /\ json_dir \in [LoadIds -> LoadFiles]
            /\ strategy = "json_priority"
            /\ overlap_stats = NoStats
            /\ result = NoResult
            /\ pc = "start"
            /\ NoFrames
            /\ shard_count = 1 /\ runs = <<>> /\ http = NoHttp /\ pool = NoPool /\ hybrid = NoHttp /\ upstream = NoUpstream /\ dl = NoDownload
            /\ hung \in {H \in SUBSET LoadIds : Cardinality(H) <= MaxHung}

HangSpec == InitHang /\ [][NextLoad]_vars /\ WF_vars(Submit) /\ WF_vars(WorkerStart) /\ WF_vars(WorkerFinish) /\ WF_vars(Collect) /\ WF_vars(Return)

\* ------------------------------------------------------------------------
\* The schema enforcers on their own, given any table: the identifier and
\* a choice of other columns, canonical or not, of one dtype each, with a
\* value in the first row and nulls in the others.
\* ------------------------------------------------------------------------
MaxEnforceRows == 2

Absent == [present |-> FALSE, dt |-> "Null", cell |-> Null]

Column(dt, cell) == [present |-> TRUE, dt |-> dt, cell |-> cell]

EnforceColumns == <<"nct_id", "enrollment", "has_results", "conditions", "start_date", "csv_title">>

EnforceChoices == {[nct_id |-> Column("Utf8", Str(NCT1)), enrollment |-> e, has_results |-> h, conditions |-> c, start_date |-> d, csv_title |-> x] :
    e \in {Absent, Column("Int64", IntCell(5)), Column("Utf8", Str(<<"5">>)), Column("Utf8", Str(<<"x">>)), Column("Null", Null)},
    h \in {Absent, Column("Boolean", Bool(TRUE)), Column("Int64", IntCell(1))},
    c \in {Absent, Column("ListUtf8", List(<< <<"D">> >>))},
    d \in {Absent, Column("Utf8", Str(<<"1">>)), Column("Null", Null)},
    x \in {Absent, Column("Utf8", Str(TitleA))}}

EnforceTable(n, v) == LET cols == SelectSeq(EnforceColumns, LAMBDA c : v[c].present)
                      IN Frame(cols, [c \in Range(cols) |-> v[c].dt], [k \in 1..n |-> [c \in Range(cols) |-> IF k = 1 THEN v[c].cell ELSE Null]])

InitEnforce == /\ NoSources
               /\ pc = "start"
               /\ csv_df = NoFrame /\ json_df = NoFrame /\ merged_df = NoFrame /\ output_df = NoFrame
               /\ \E n \in 0..MaxEnforceRows, v \in EnforceChoices : final_df = EnforceTable(n, v)
               /\ NoRuns

Enforce == /\ pc = "start"
           /\ output_df' = _enforce_output_schema(final_df)
           /\ pc' = "enforced"
           /\ UNCHANGED <<others, sources, overlap_stats, result, csv_df, json_df, merged_df, final_df>>

OperatorEnforce == /\ pc = "start"
                   /\ output_df' = operators_enforce_output_schema(final_df)
                   /\ pc' = "operator_enforced"
                   /\ UNCHANGED <<others, sources, overlap_stats, result, csv_df, json_df, merged_df, final_df>>

NextEnforce == Enforce \/ OperatorEnforce

EnforceSpec == InitEnforce /\ [][NextEnforce]_vars

\* ------------------------------------------------------------------------
\* The two provenance rules on the same coalesced table: rows with a
\* tabular title or none and a document title or none.
\* ------------------------------------------------------------------------
MaxRuleRows == 2

RuleRows == {[nct_id |-> Str(NCT1), title |-> t, json_official_title |-> j] : t \in {Null, Str(TitleA)}, j \in {Null, Str(TitleB)}}

RuleTables == {Frame(<<"nct_id", "title", "json_official_title">>, [c \in {"nct_id", "title", "json_official_title"} |-> "Utf8"], rows) :
                  rows \in UNION {[1..n -> RuleRows] : n \in 1..MaxRuleRows}}

InitRules == /\ csv_file = CsvFile(FALSE, StandardHeader, <<>>)
             /\ json_dir = [i \in {NCT1} |-> NoFile]
             /\ strategy \in DeduplicationStrategy
             /\ overlap_stats = NoStats
             /\ result = NoResult
             /\ pc = "start"
             /\ csv_df = NoFrame /\ json_df = NoFrame /\ merged_df = NoFrame /\ output_df = NoFrame
             /\ final_df \in RuleTables
             /\ NoRuns

Labelled(kind) == \E k \in 1..Len(runs) : runs[k].kind = kind

PipelineLabel == /\ ~Labelled("pipeline")
                 /\ runs' = Append(runs, [kind |-> "pipeline", df |-> pipeline_data_source(final_df, strategy)])
                 /\ UNCHANGED <<sources, pc, overlap_stats, result, frames, shard_count, http, pool, hung, hybrid, upstream, dl>>

OperatorLabel == /\ ~Labelled("operator")
                 /\ runs' = Append(runs, [kind |-> "operator", df |-> operator_data_source(final_df, strategy)])
                 /\ UNCHANGED <<sources, pc, overlap_stats, result, frames, shard_count, http, pool, hung, hybrid, upstream, dl>>

NextRules == PipelineLabel \/ OperatorLabel

RuleSpec == InitRules /\ [][NextRules]_vars

\* ------------------------------------------------------------------------
\* The two implementations of HTTPClientProtocol.get called once each
\* against the same upstream: script[k] is what the upstream does at the
\* k-th request of a call.
\* ------------------------------------------------------------------------
PairEvents == {Response(st, <<>>) : st \in {200, 404, 429, 503}} \cup {TransportFailure(x) : x \in {"httpx_ConnectTimeout", "httpx_ConnectError"}}

InitPair == /\ NoSources
            /\ pc = "start"
            /\ NoFrames
            /\ shard_count = 1 /\ runs = <<>> /\ pool = NoPool /\ hung = NoHung /\ dl = NoDownload
            /\ http = NoHttp
            /\ hybrid = NoHttp
            /\ \E script \in [1..stop_after_attempt -> PairEvents], client \in {"httpx", "curl_cffi"} : upstream = [script |-> script, client |-> client]

ClientAttempt == /\ http.phase \in {"idle", "waiting"}
                 /\ http' = attempt(http, upstream.script[Len(http.requests) + 1])
                 /\ UNCHANGED <<sources, pc, overlap_stats, result, frames, shard_count, runs, pool, hung, hybrid, upstream, dl>>

HybridAttempt == /\ hybrid.phase \in {"idle", "waiting"}
                 /\ hybrid' = hybrid_attempt(hybrid, hybrid_request(upstream.client, upstream.script[Len(hybrid.requests) + 1]))
                 /\ UNCHANGED <<sources, pc, overlap_stats, result, frames, shard_count, runs, pool, hung, http, upstream, dl>>

NextPair == ClientAttempt \/ HybridAttempt

PairSpec == InitPair /\ [][NextPair]_vars

\* ------------------------------------------------------------------------
\* One run of download_documents: the documents, the limit and the files
\* already in the output directory are the inputs.
\* ------------------------------------------------------------------------
MaxDocs == 2

MaxConcurrent == 2

\* two file names that differ and have the same safe name, and another
FileNames == {<<"a", " ", "b">>, <<"a", "_", "b">>, <<"c">>}

Responses == {Content(1), Content(max_size_mb + 1), Failing("httpx_TimeoutException"), Failing("httpx_HTTPStatusError"), Failing("Exception")}

InitDownload == /\ NoSources
                /\ pc = "start"
                /\ NoFrames
                /\ shard_count = 1 /\ runs = <<>> /\ http = NoHttp /\ pool = NoPool /\ hung = NoHung /\ hybrid = NoHttp /\ upstream = NoUpstream
                /\ \E n \in 0..MaxDocs, max_concurrent \in 1..MaxConcurrent, files \in {{}, {_create_safe_path(NCT1, <<"c">>)}} :
                      \E names \in [1..n -> FileNames] :
                          dl = [NoDownload EXCEPT !.max_concurrent = max_concurrent, !.files = files, !.documents = [i \in 1..n |-> DocumentInfo(NCT1, names[i])]]

\* download_documents is entered: nothing to do without documents, else
\* the semaphore and one task per document
StartDownloads == /\ dl.phase = "idle"
                  /\ dl' = IF dl.documents = <<>> THEN [dl EXCEPT !.phase = "returned"]
                           ELSE [dl EXCEPT !.phase = "gathering", !.semaphore = dl.max_concurrent, !.tasks = [i \in 1..Len(dl.documents) |-> NoTask]]
                  /\ UNCHANGED <<shard_count, runs, http, pool, hung, hybrid, upstream, sources, pc, overlap_stats, result, frames>>

\* async with semaphore
Acquire == /\ dl.phase = "gathering"
           /\ dl.semaphore > 0
           /\ \E i \in 1..Len(dl.tasks) :
                 /\ dl.tasks[i].pc = "waiting"
                 /\ dl' = [dl EXCEPT !.semaphore = @ - 1, !.tasks[i].pc = "holding"]
           /\ UNCHANGED <<shard_count, runs, http, pool, hung, hybrid, upstream, sources, pc, overlap_stats, result, frames>>

\* the client factory raises, or the client is entered and
\* _download_single_document runs to its first await or to the return
Begin == /\ dl.phase = "gathering"
         /\ \E i \in 1..Len(dl.tasks) :
               /\ dl.tasks[i].pc = "holding"
               /\ \/ dl' = [dl EXCEPT !.tasks[i].pc = "closing", !.tasks[i].raised = "factory"]
                  \/ /\ SkipsExisting(dl.documents[i], dl.files)
                     /\ dl' = [dl EXCEPT !.tasks[i].pc = "closing", !.documents[i] = skipped(@)]
                  \/ /\ ~SkipsExisting(dl.documents[i], dl.files)
                     /\ dl' = [dl EXCEPT !.tasks[i].pc = "fetching", !.tasks[i].fetched = TRUE]
         /\ UNCHANGED <<shard_count, runs, http, pool, hung, hybrid, upstream, sources, pc, overlap_stats, result, frames>>

\* the request ends, within its timeout, and the task runs to the return
Complete == /\ dl.phase = "gathering"
            /\ \E i \in 1..Len(dl.tasks), response \in Responses :
                  /\ dl.tasks[i].pc = "fetching"
                  /\ dl' = [dl EXCEPT !.tasks[i].pc = "closing", !.tasks[i].response = response, !.tasks[i].wrote = Writes(response), !.documents[i] = downloaded(@, response),
                                      !.files = IF Writes(response) THEN @ \cup {_create_safe_path(dl.documents[i].nct_id, dl.documents[i].filename)} ELSE @]
            /\ UNCHANGED <<shard_count, runs, http, pool, hung, hybrid, upstream, sources, pc, overlap_stats, result, frames>>

\* the task leaves the client and releases the semaphore
Release == /\ dl.phase = "gathering"
           /\ \E i \in 1..Len(dl.tasks) :
                 /\ dl.tasks[i].pc = "closing"
                 /\ dl' = [dl EXCEPT !.semaphore = @ + 1, !.tasks[i].pc = "finished"]
           /\ UNCHANGED <<shard_count, runs, http, pool, hung, hybrid, upstream, sources, pc, overlap_stats, result, frames>>

\* gather returns when every task ended
Gather == /\ dl.phase = "gathering"
          /\ \A i \in 1..Len(dl.tasks) : dl.tasks[i].pc = "finished"
          /\ dl' = [dl EXCEPT !.phase = "returned", !.results = results_of_gather(dl.documents, dl.tasks)]
          /\ UNCHANGED <<shard_count, runs, http, pool, hung, hybrid, upstream, sources, pc, overlap_stats, result, frames>>

NextDownload == StartDownloads \/ Acquire \/ Begin \/ Complete \/ Release \/ Gather

DownloadSpec == InitDownload /\ [][NextDownload]_vars

\* the event loop runs every task that is ready, and every request ends
DownloadFairSpec == DownloadSpec /\ WF_vars(StartDownloads) /\ WF_vars(Acquire) /\ WF_vars(Begin) /\ WF_vars(Complete) /\ WF_vars(Release) /\ WF_vars(Gather)

\* ------------------------------------------------------------------------
\* Properties of repeated create_shards calls
\* ------------------------------------------------------------------------
Listed(run) == {run.shards[k].path : k \in 1..Len(run.shards)}

\* C30: after any sequence of create_shards calls into one directory the
\* shard files present are exactly the paths of the descriptors the last
\* call returned
C30_OnlyLastCallFiles == runs # <<>> => DOMAIN runs[Len(runs)].files = Listed(runs[Len(runs)])

\* the first call into an empty directory leaves exactly its own files
C30_FirstCallExact == Len(runs) = 1 => DOMAIN runs[1].files = Listed(runs[1])

\* no call removes a file: the directory after a call holds the files of
\* the call and every file that was there before
C30_FilesAccumulate == \A k \in 1..Len(runs) : DOMAIN runs[k].files = Listed(runs[k]) \cup (IF k = 1 THEN {} ELSE DOMAIN runs[k - 1].files)

\* ------------------------------------------------------------------------
\* Properties of download_documents
\* ------------------------------------------------------------------------
InFlight == {i \in 1..Len(dl.tasks) : dl.tasks[i].pc \in {"holding", "fetching", "closing"}}

\* the download of document i failed: exception, HTTP error, timeout, oversize
DownloadFailed(i) == \/ dl.tasks[i].raised # ""
                     \/ dl.tasks[i].response.kind \in {"httpx_TimeoutException", "httpx_HTTPStatusError", "Exception"}
                     \/ dl.tasks[i].response.kind = "content" /\ dl.tasks[i].response.mb > max_size_mb

Isolated == dl.phase = "returned" =>
               /\ Len(dl.results) = Len(dl.documents)
               /\ \A i \in 1..Len(dl.documents) :
                     /\ DownloadFailed(i) => dl.results[i].status = "failed"
                     /\ ~DownloadFailed(i) => dl.results[i].status = (IF dl.tasks[i].wrote THEN "downloaded" ELSE "skipped")

\* C28: at most max_concurrent downloads are in flight at any time, every
\* document gets a result, and a failed download makes the status of its
\* own document "failed" while every other document ends with the status
\* its own download gave
C28_BoundedIsolatedDownloads == [](Cardinality(InFlight) <= dl.max_concurrent /\ Isolated) /\ <>(dl.phase = "returned")

\* one download at a time: the first document failed and the second one
\* was downloaded
C28_Witness == /\ dl.phase = "returned"
               /\ dl.max_concurrent = 1
               /\ Len(dl.documents) = 2
               /\ DownloadFailed(1) /\ dl.results[1].status = "failed"
               /\ dl.tasks[2].wrote /\ dl.results[2].status = "downloaded"

SamePath(i, j) == _create_safe_path(dl.documents[i].nct_id, dl.documents[i].filename) = _create_safe_path(dl.documents[j].nct_id, dl.documents[j].filename)

\* C29: of two documents with the same safe local path at most one task
\* makes the request and writes the file
C29_OneWriterPerPath == \A i, j \in 1..Len(dl.tasks) : i # j /\ SamePath(i, j) => ~(dl.tasks[i].wrote /\ dl.tasks[j].wrote)

\* with one download at a time the second task finds the file written
C29_SerialWritesOnce == dl.max_concurrent = 1 => C29_OneWriterPerPath

\* the path is checked before the request and written after it: two
\* tasks that are in flight together never skip one another
C29_BothFetchWhenTogether == \A i, j \in 1..Len(dl.tasks) : i # j /\ SamePath(i, j) /\ dl.tasks[i].pc = "fetching" /\ dl.tasks[j].pc = "fetching" => dl.documents[i].status = "pending" /\ dl.documents[j].status = "pending"

\* ------------------------------------------------------------------------
\* Properties of the flow
\* ------------------------------------------------------------------------
\* The identifiers of the two sources, read off the inputs
TabularIds == {csv_file.rows[k]["NCT Number"].s : k \in 1..Len(csv_file.rows)}

DocumentIds == {i \in DOMAIN json_dir : json_dir[i].present /\ Len(i) >= 3 /\ i[1] = "N" /\ i[2] = "C" /\ i[3] = "T"}

Finished == pc \in {"harmonized", "executed"}

\* the rows of the returned table whose identifier is id
RowsOf(id) == {k \in 1..Len(result.df.rows) : result.df.rows[k]["nct_id"] = Str(id)}

\* C1: analyze_overlap returns overlap = A \cap B, csv_only = A \ B and
\* json_only = B \ A for the identifiers A of the CSV and B of the
\* NCT*.json files; the three sets are pairwise disjoint, their union is
\* A \cup B, and the reported counts are the sizes of the sets.
C1_OverlapPartition == (pc = "analyzed") =>
    LET o == overlap_stats IN
    /\ o.overlap = TabularIds \cap DocumentIds
    /\ o.csv_only = TabularIds \ DocumentIds
    /\ o.json_only = DocumentIds \ TabularIds
    /\ o.overlap \cap o.csv_only = {} /\ o.overlap \cap o.json_only = {} /\ o.csv_only \cap o.json_only = {}
    /\ o.overlap \cup o.csv_only \cup o.json_only = TabularIds \cup DocumentIds
    /\ o.csv_total = Cardinality(TabularIds) /\ o.json_total = Cardinality(DocumentIds)
    /\ o.overlap_count = Cardinality(o.overlap) /\ o.csv_only_count = Cardinality(o.csv_only) /\ o.json_only_count = Cardinality(o.json_only)

C1_Witness == pc = "analyzed" /\ overlap_stats.overlap # {} /\ overlap_stats.csv_only # {} /\ overlap_stats.json_only # {}

\* C2: for each strategy and any existing CSV file and JSON directory,
\* harmonize_data ends by returning a table and its statistics.
C2_HarmonizeReturns == (pc = "harmonized" /\ csv_file.exists) => result.err = ""

\* C3: the table harmonize_data returns holds exactly one row for every
\* identifier of either source and no row for any other identifier.
C3_OneRowPerIdentifier == (pc = "harmonized") =>
    /\ result.err = ""
    /\ \A id \in TabularIds \cup DocumentIds : Cardinality(RowsOf(id)) = 1
    /\ \A k \in 1..Len(result.df.rows) : \E id \in TabularIds \cup DocumentIds : k \in RowsOf(id)

\* C4: under each strategy a record present only in the CSV with title T
\* gets official_title = T and data_source = csv_only.
C4_TabularOnlyRecord == Finished =>
    \A k \in 1..Len(csv_file.rows) :
        LET id == csv_file.rows[k]["NCT Number"].s
            T == csv_file.rows[k]["Study Title"]
        IN (id \notin DocumentIds /\ ~IsNull(T)) =>
              /\ result.err = ""
              /\ \A j \in RowsOf(id) : result.df.rows[j]["official_title"] = T /\ result.df.rows[j]["data_source"] = Str("csv_only")
              /\ RowsOf(id) # {}

\* C5: a record present in both sources is labelled with the priority
\* label of the strategy (json_priority, csv_priority) or, under merge_all
\* with both titles non-null, merged; under the two priority strategies it
\* never carries a single-source label.
C5_BothPresentLabel == Finished =>
    \A id \in TabularIds \cap DocumentIds :
        ProcessOk(json_dir, id) =>
           /\ result.err = ""
           /\ RowsOf(id) # {}
           /\ \A j \in RowsOf(id) :
                LET lab == result.df.rows[j]["data_source"] IN
                /\ strategy = "json_priority" => lab = Str("json_priority")
                /\ strategy = "csv_priority" => lab = Str("csv_priority")
                /\ (strategy = "merge_all" /\ ~IsNull(result.df.rows[j]["title"]) /\ ~IsNull(json_dir[id].f["officialTitle"])) => lab = Str("merged")

\* C6: a record present only in the JSON source is labelled json_only
\* under every strategy.
C6_DocumentOnlyLabel == Finished =>
    \A id \in DocumentIds \ TabularIds :
        ProcessOk(json_dir, id) =>
           /\ result.err = ""
           /\ RowsOf(id) # {}
           /\ \A j \in RowsOf(id) : result.df.rows[j]["data_source"] = Str("json_only")

\* ------------------------------------------------------------------------
\* Properties of the stages
\* ------------------------------------------------------------------------
HasRow(df, id) == df.err = "" /\ \E k \in 1..Len(df.rows) : df.rows[k]["nct_id"] = Str(id)

RowOf(df, id) == df.rows[CHOOSE k \in 1..Len(df.rows) : df.rows[k]["nct_id"] = Str(id)]

InCsv == \E k \in 1..Len(csv_file.rows) : csv_file.rows[k]["NCT Number"] = Str(NCT1)

InJson == json_dir[NCT1].present /\ json_dir[NCT1].valid

\* the raw CSV cell of NCT1 under a header name, null without a row
RawCell(c) == IF InCsv /\ c \in Range(csv_file.header) THEN csv_file.rows[CHOOSE k \in 1..Len(csv_file.rows) : csv_file.rows[k]["NCT Number"] = Str(NCT1)][c] ELSE Null

\* the flattened document value of NCT1, null without a valid document
DocCell(c) == IF InJson THEN _flatten_json_record(NCT1, json_dir[NCT1])[c] ELSE Null

Coalesced == pc \in {"coalesced", "labelled"} /\ final_df.err = ""

Enforced == pc = "finalized" /\ output_df.err = "" /\ Len(output_df.rows) > 0

ExpectedTitle == IF strategy = "csv_priority" THEN RawCell("Study Title") ELSE DocCell("json_official_title")

BothTitled == InCsv /\ InJson /\ ~IsNull(RawCell("Study Title")) /\ ~IsNull(DocCell("json_official_title"))

TabularList(c) == RowOf(csv_df, NCT1)[c].l

NoDuplicates(q) == \A i, j \in 1..Len(q) : q[i] = q[j] => i = j

ListAsClaimed(got, Ld, Lt) == CASE strategy = "merge_all" -> got.t = "list" /\ NoDuplicates(got.l) /\ Range(got.l) = Range(Ld) \cup Range(Lt)
                                [] strategy = "json_priority" -> got = List(Ld)
                                [] strategy = "csv_priority" -> got = List(Lt)

CsvValue(c) == IF HasRow(csv_df, NCT1) /\ c \in ColSet(csv_df) THEN RowOf(csv_df, NCT1)[c] ELSE Null

\* a source supplies a value: it is not null and, for a list, not empty
Supplied(v) == ~IsNull(v) /\ (v.t = "list" => v.l # <<>>)

\* canonical field, tabular column, document column
CoalescedFields == {<<"official_title", "title", "json_official_title">>, <<"brief_title", "title", "json_brief_title">>,
    <<"overall_status", "overall_status", "json_overall_status">>, <<"study_type", "study_type", "json_study_type">>,
    <<"brief_summary", "brief_summary", "json_brief_summary">>, <<"conditions", "conditions", "json_conditions">>,
    <<"interventions", "interventions", "json_interventions">>, <<"sex", "sex", "json_sex">>,
    <<"enrollment", "enrollment", "json_enrollment">>, <<"has_results", "has_results", "json_has_results">>}

\* C9: for every strategy and every coalesced field, when exactly one of
\* the two sources supplies a value for the field of a record, the
\* canonical field of the record is that value unchanged.
C9_SingleSourceValue == Coalesced =>
    \A f \in CoalescedFields :
        /\ (Supplied(CsvValue(f[2])) /\ ~Supplied(DocCell(f[3]))) => RowOf(final_df, NCT1)[f[1]] = CsvValue(f[2])
        /\ (Supplied(DocCell(f[3])) /\ ~Supplied(CsvValue(f[2]))) => RowOf(final_df, NCT1)[f[1]] = DocCell(f[3])

\* a cell is of a declared type
OfType(c, dtype) == \/ IsNull(c)
                    \/ CellDtype(c) = dtype
                    \/ c.t = "int" /\ dtype = "UInt64" /\ c.n >= 0
                    \/ c.t = "time" /\ dtype = "Datetime"

\* the columns of OUTPUT_SCHEMA in its order with its types, and the hash
\* and the timestamp filled in every row
SchemaShape == /\ output_df.cols = SchemaNames
               /\ output_df.dt = SchemaTypes
               /\ \A k \in 1..Len(output_df.rows) :
                      /\ DOMAIN output_df.rows[k] = Range(SchemaNames)
                      /\ \A c \in Range(SchemaNames) : OfType(output_df.rows[k][c], SchemaType(c))
                      /\ ~IsNull(output_df.rows[k]["shard_hash"])
                      /\ ~IsNull(output_df.rows[k]["processing_timestamp"])

Returned == pc = "finalized" /\ output_df.err = ""

EmptyKeyTable(df, key) == df.err = "" /\ df.cols = <<key>> /\ df.dt[key] = "Utf8" /\ df.rows = <<>>

NothingToPrepare == overlap_stats.overlap \cup overlap_stats.csv_only \cup overlap_stats.json_only = {}

\* C11: prepare_csv_df and prepare_json_df return for an empty identifier
\* set a zero-row table holding the join key typed as string, and
\* harmonize_data on inputs whose prepared tables are both empty returns a
\* zero-row table with the columns and types of OUTPUT_SCHEMA instead of
\* raising.
C11_EmptyInputs == (pc = "harmonized" /\ NothingToPrepare) =>
    /\ EmptyKeyTable(prepare_csv_df(csv_file, {}), "nct_id")
    /\ EmptyKeyTable(prepare_json_df(json_dir, <<>>), "json_nct_id")
    /\ result.err = ""
    /\ result.df.cols = SchemaNames /\ result.df.dt = SchemaTypes /\ result.df.rows = <<>>

\* the part of C11 that is about the two preparation functions alone
C11_EmptyPreparation == (pc = "harmonized" /\ NothingToPrepare) =>
    /\ EmptyKeyTable(prepare_csv_df(csv_file, {}), "nct_id")
    /\ EmptyKeyTable(prepare_json_df(json_dir, <<>>), "json_nct_id")

\* the identifiers prepare_json_df is asked for, and those of them whose
\* document does not load or validate
Requested == GlobNCT(json_dir)

Failed == {i \in Requested : ~ProcessOk(json_dir, i)}

JsonRowsOf(i) == {k \in 1..Len(json_df.rows) : json_df.rows[k]["json_nct_id"] = Str(i)}

\* C12: when a document of the batch is missing or malformed,
\* prepare_json_df does not raise, the identifier has no row in the table
\* it returns, every sibling with a valid document has its row, and the
\* stats of the run carry an error count that counts the failure.
C12_MalformedExcluded == (pc # "start" /\ Failed # {}) =>
    /\ json_df.err = ""
    /\ \A i \in Failed : JsonRowsOf(i) = {}
    /\ \A i \in Requested \ Failed : JsonRowsOf(i) # {}
    /\ (pc = "finalized" /\ output_df.err = "") =>
          /\ "error_count" \in DOMAIN run_stats(csv_df, json_df, output_df)
          /\ run_stats(csv_df, json_df, output_df)["error_count"] = Cardinality(Failed)

\* the part of C12 that is about the table alone
C12_TableOnly == (pc # "start" /\ Failed # {}) =>
    /\ json_df.err = ""
    /\ \A i \in Failed : JsonRowsOf(i) = {}
    /\ \A i \in Requested \ Failed : JsonRowsOf(i) # {}

\* ------------------------------------------------------------------------
\* Properties of create_shards
\* ------------------------------------------------------------------------
\* the shard ids a call describes, and a row of a shard file as it was in
\* the input table
DescribedIds(run) == {run.shards[k].shard_id : k \in 1..Len(run.shards)}

InputRow(r) == [c \in DOMAIN r \ {"shard_id"} |-> r[c]]

Occurrences(q, x) == Cardinality({k \in 1..Len(q) : q[k] = x})

OccurrencesInShard(run, s, x) == Cardinality({k \in 1..Len(run.files[s]) : InputRow(run.files[s][k]) = x})

RECURSIVE SumCounts(_)
SumCounts(q) == IF q = <<>> THEN 0 ELSE Head(q).record_count + SumCounts(Tail(q))

C14_ShardsPartition == \A i \in 1..Len(runs) :
    LET run == runs[i] IN
    /\ run.err = ""
    /\ \A k, m \in 1..Len(run.shards) : run.shards[k].shard_id = run.shards[m].shard_id => k = m
    /\ \A k \in 1..Len(run.shards) : run.shards[k].record_count > 0 /\ run.shards[k].record_count = Len(run.files[run.shards[k].shard_id])
    /\ \A s \in 0..(shard_count - 1) : (s \in DescribedIds(run)) <=> (\E k \in 1..Len(output_df.rows) : shard_id(output_df.rows[k], shard_count) = s)
    /\ \A k \in 1..Len(output_df.rows) :
          \E s \in DescribedIds(run) :
              /\ OccurrencesInShard(run, s, output_df.rows[k]) = Occurrences(output_df.rows, output_df.rows[k])
              /\ \A t \in DescribedIds(run) \ {s} : OccurrencesInShard(run, t, output_df.rows[k]) = 0
    /\ SumCounts(run.shards) = Len(output_df.rows)

C14_Witness == /\ Len(runs) >= 1
               /\ Len(output_df.rows) = MaxShardRows
               /\ Len(runs[1].shards) >= 2
               /\ Len(runs[1].shards) < shard_count

\* ------------------------------------------------------------------------
\* Properties of a second run
\* ------------------------------------------------------------------------
RowSet(df) == {df.rows[k] : k \in 1..Len(df.rows)}

\* two runs returned the same table, as a set of rows, and the same shards
SameOutcome(a, b) == /\ a.err = "" /\ b.err = ""
                     /\ Len(a.df.rows) = Len(b.df.rows) /\ RowSet(a.df) = RowSet(b.df)
                     /\ a.sharding.shards = b.sharding.shards

WithoutTimestamp(df) == {[c \in DOMAIN r \ {"processing_timestamp", "shard_id"} |-> r[c]] : r \in RowSet(df)}

\* C15: harmonize_data followed by create_shards, run twice on the same
\* inputs with the same strategy and shard count, gives the same canonical
\* table, every column of every row equal once the rows are put in the
\* order of their identifiers, and the same shard assignments.
C15_RerunIdentical == \A i, j \in 1..Len(runs) : runs[i].kind = runs[j].kind => SameOutcome(runs[i], runs[j])

\* C15 for the runs of the flow alone, and for the runs of the last stage
\* alone
C15_FlowRuns == \A i, j \in 1..Len(runs) : (runs[i].kind = "flow" /\ runs[j].kind = "flow") => SameOutcome(runs[i], runs[j])

C15_FinalizeRuns == \A i, j \in 1..Len(runs) : (runs[i].kind = "finalize" /\ runs[j].kind = "finalize") => SameOutcome(runs[i], runs[j])

\* the runs of the last stage differ in processing_timestamp and nothing
\* else
C15_FinalizeRunsButTimestamp == \A i, j \in 1..Len(runs) : (runs[i].kind = "finalize" /\ runs[j].kind = "finalize") =>
    /\ runs[i].err = "" /\ runs[j].err = ""
    /\ WithoutTimestamp(runs[i].df) = WithoutTimestamp(runs[j].df)
    /\ runs[i].sharding.shards = runs[j].sharding.shards

\* ------------------------------------------------------------------------
\* Properties of ClinicalTrialsHTTPClient.get
\* ------------------------------------------------------------------------
Done == http.phase = "done"

LastRequest == http.requests[Len(http.requests)]

\* the class the claims name for a status other than 200
ClaimedClass(status) == IF status = 404 THEN "NotFoundError"
                        ELSE IF status = 400 THEN "ValidationError"
                        ELSE IF status = 429 THEN "RateLimitError"
                        ELSE IF status \in 500..599 THEN "ServerError"
                        ELSE "ClinicalTrialsAPIError"

Retried(status) == status = 429 \/ status \in 500..599

\* C16 as stated: the call ends by the status of the response: 200
\* returns the response, 404 raises NotFoundError, 400 ValidationError,
\* 403 ClinicalTrialsAPIError, 429 RateLimitError, 500-599 ServerError, any
\* other status ClinicalTrialsAPIError, the error carrying the status code
\* and the text of the response.
C16_StatusToCallerOutcome == (Done /\ LastRequest.kind = "response") =>
    IF LastRequest.status = 200 THEN http.returned = <<LastRequest>> /\ http.raised = ""
    ELSE /\ http.returned = <<>>
         /\ http.raised = ClaimedClass(LastRequest.status)
         /\ http.last_attempt = ApiError(ClaimedClass(LastRequest.status), <<LastRequest.status>>, <<LastRequest.text>>)

\* C16 amended: every attempt maps the status of its response to one
\* outcome, 200 to returning the response and any other status to the
\* error of its class carrying the status code and the text.  The caller
\* gets the response for 200 and the error itself for a status that is not
\* retried; a RateLimitError or ServerError is retried and reaches the
\* caller only as the last attempt of a RetryError, after the third attempt.
C16_StatusToAttemptOutcome ==
    /\ \A k \in 1..Len(http.requests) : http.requests[k].kind = "response" =>
          http.attempts[k] = (IF http.requests[k].status = 200 THEN NoError
                              ELSE ApiError(ClaimedClass(http.requests[k].status), <<http.requests[k].status>>, <<http.requests[k].text>>))
    /\ (Done /\ LastRequest.kind = "response") =>
          /\ http.last_attempt = http.attempts[Len(http.attempts)]
          /\ LastRequest.status = 200 => (http.returned = <<LastRequest>> /\ http.raised = "")
          /\ (LastRequest.status # 200 /\ ~Retried(LastRequest.status)) => (http.returned = <<>> /\ http.raised = ClaimedClass(LastRequest.status))
          /\ Retried(LastRequest.status) => (http.returned = <<>> /\ http.raised = "RetryError" /\ Len(http.requests) = 3)

C16_Witness == /\ Done /\ Len(http.requests) = 2
               /\ http.requests[1].status = 429
               /\ http.raised = "NotFoundError"
               /\ http.last_attempt = ApiError("NotFoundError", <<404>>, <<<<"t">>>>)

All429 == http.requests # <<>> /\ \A k \in 1..Len(http.requests) : http.requests[k].kind = "response" /\ http.requests[k].status = 429

All5xx == http.requests # <<>> /\ \A k \in 1..Len(http.requests) : http.requests[k].kind = "response" /\ http.requests[k].status \in 500..599

\* C17: when every attempt gets status 429, or every attempt a 5xx
\* status, the call makes exactly 3 requests and then raises RetryError
\* whose last attempt holds the RateLimitError, or the ServerError, with
\* the status code of the response.
C17_RetriesThenRetryError == (All429 \/ All5xx) =>
    /\ Len(http.requests) <= 3
    /\ Done <=> Len(http.requests) = 3
    /\ Done => /\ http.raised = "RetryError"
               /\ http.returned = <<>>
               /\ http.last_attempt.cls = (IF All429 THEN "RateLimitError" ELSE "ServerError")
               /\ http.last_attempt.status_code = <<LastRequest.status>>

C17_Witness == /\ All5xx /\ Done
               /\ http.requests[1].status = 500 /\ http.requests[2].status = 503 /\ http.requests[3].status = 599
               /\ http.raised = "RetryError" /\ http.last_attempt.cls = "ServerError" /\ http.last_attempt.status_code = <<599>>

\* C18: when the request of an attempt times out or fails to connect, no
\* other request follows, so a call whose request fails makes exactly one
\* request, and the caller gets the library's TimeoutError for a timeout
\* and NetworkError for a connection or other request error, not a
\* RetryError.
C18_TransportErrorNotRetried == \A k \in 1..Len(http.requests) : http.requests[k].kind = "exception" =>
    /\ k = Len(http.requests)
    /\ Done
    /\ http.returned = <<>>
    /\ http.raised = (IF http.requests[k].exc \in {"httpx_ConnectTimeout", "httpx_ReadTimeout"} THEN "TimeoutError" ELSE "NetworkError")
    /\ http.requests[1].kind = "exception" => Len(http.requests) = 1

C18_Witness == /\ Done /\ Len(http.requests) = 1
               /\ http.requests[1].exc = "httpx_ConnectTimeout"
               /\ http.raised = "TimeoutError"

\* C26: the call stops at the first conclusive attempt.  A response with
\* status 200 after attempts that all got 429 or a 5xx status is returned
\* with no further request; a status that is not retried raises its error
\* with no further request; every attempt before the last one got 429 or a
\* 5xx status; and no call makes more than 3 requests.
C26_StopsAtFirstConclusive ==
    /\ Len(http.requests) <= 3
    /\ \A k \in 1..Len(http.requests) :
          /\ k < Len(http.requests) => (http.requests[k].kind = "response" /\ Retried(http.requests[k].status))
          /\ (http.requests[k].kind = "response" /\ ~Retried(http.requests[k].status)) =>
                /\ k = Len(http.requests)
                /\ Done
                /\ IF http.requests[k].status = 200 THEN http.returned = <<http.requests[k]>> /\ http.raised = ""
                   ELSE http.returned = <<>> /\ http.raised = ClaimedClass(http.requests[k].status)

C26_Witness == /\ Done /\ Len(http.requests) = 3
               /\ http.requests[1].status = 429 /\ http.requests[2].status = 503 /\ http.requests[3].status = 200
               /\ http.returned = <<http.requests[3]>>
               /\ http.raised = ""

\* ------------------------------------------------------------------------
\* Properties of the flattening of one document
\* ------------------------------------------------------------------------
\* the section and the leaf a scalar column is read from
ScalarColumns == [json_official_title |-> <<"identificationModule", "officialTitle">>, json_brief_title |-> <<"identificationModule", "briefTitle">>,
    json_acronym |-> <<"identificationModule", "acronym">>, json_overall_status |-> <<"statusModule", "overallStatus">>,
    json_study_type |-> <<"designModule", "studyType">>, json_brief_summary |-> <<"descriptionModule", "briefSummary">>,
    json_detailed_description |-> <<"descriptionModule", "detailedDescription">>, json_sex |-> <<"eligibilityModule", "sex">>,
    json_minimum_age |-> <<"eligibilityModule", "minimumAge">>, json_maximum_age |-> <<"eligibilityModule", "maximumAge">>,
    json_healthy_volunteers |-> <<"eligibilityModule", "healthyVolunteers">>, json_enrollment |-> <<"enrollmentInfo", "count">>,
    json_start_date |-> <<"startDateStruct", "startDate">>, json_completion_date |-> <<"completionDateStruct", "completionDate">>]

\* the same for a column that holds a list, and whether its entries are
\* objects with a name, a term or a file name
ListColumns == [json_phases |-> <<"designModule", "phases">>, json_conditions |-> <<"conditionsModule", "conditions">>,
    json_interventions |-> <<"armsInterventionsModule", "interventions">>, json_condition_meshes |-> <<"conditionBrowseModule", "meshes">>,
    json_document_files |-> <<"largeDocumentModule", "largeDocs">>]

NamedColumns == {"json_interventions", "json_condition_meshes", "json_document_files"}

RECURSIVE Named(_)
Named(q) == IF q = <<>> THEN <<>> ELSE IF Head(q) = <<>> THEN Named(Tail(q)) ELSE <<Head(q)>> \o Named(Tail(q))

Flattened == json_df.rows[1]

\* C19: for every subset of the sections of a valid document, the document
\* is validated and flattened into one row; a scalar field is null when
\* its section is absent and the value of the document otherwise; a list
\* field is the empty list when its section is absent, and otherwise the
\* list of the document, a list of names holding the entries that have a
\* name, in the order of the document.
C19_AbsentSectionsDegrade == (pc = "prepared" /\ model_validate(AllSections, json_dir[NCT1].f)) =>
    /\ json_df.err = ""
    /\ Len(json_df.rows) = 1
    /\ DOMAIN Flattened = DOMAIN ScalarColumns \cup DOMAIN ListColumns \cup {"json_nct_id", "json_has_results"}
    /\ Flattened["json_nct_id"] = Str(NCT1)
    /\ Flattened["json_has_results"] = json_dir[NCT1].f["hasResults"]
    /\ \A c \in DOMAIN ScalarColumns :
          Flattened[c] = (IF ScalarColumns[c][1] \in json_dir[NCT1].sections THEN json_dir[NCT1].f[ScalarColumns[c][2]] ELSE Null)
    /\ \A c \in DOMAIN ListColumns :
          Flattened[c] = (IF ListColumns[c][1] \notin json_dir[NCT1].sections THEN List(<<>>)
                          ELSE IF c \in NamedColumns THEN List(Named(json_dir[NCT1].f[ListColumns[c][2]].l))
                          ELSE List(json_dir[NCT1].f[ListColumns[c][2]].l))

C19_Witness == /\ pc = "prepared"
               /\ json_dir[NCT1].sections = {"protocolSection", "identificationModule", "armsInterventionsModule", "documentSection", "largeDocumentModule"}
               /\ Len(json_df.rows) = 1
               /\ Flattened["json_official_title"] = Str(TitleB)
               /\ Flattened["json_overall_status"] = Null
               /\ Flattened["json_conditions"] = List(<<>>)
               /\ Flattened["json_condition_meshes"] = List(<<>>)
               /\ Flattened["json_interventions"] = List(<< <<"H">>, <<"D">> >>)
               /\ Flattened["json_document_files"] = List(<< <<"F">>, <<"G">> >>)

\* ------------------------------------------------------------------------
\* Properties of the parallel loading
\* ------------------------------------------------------------------------
\* the requested identifiers whose file exists and validates
Loadable == {i \in DOMAIN pool.futures : json_dir[i].present /\ json_dir[i].valid}

\* C20: when prepare_json_df has returned, whatever the order in which the
\* workers ran and their results were collected, the table holds exactly
\* one row for each requested identifier whose file exists and validates,
\* the row of that document under that identifier, and no other row.
C20_RowsIndependentOfOrder == pool.phase = "returned" =>
    /\ json_df.err = ""
    /\ Len(json_df.rows) = Cardinality(Loadable)
    /\ RowSet(json_df) = {_flatten_json_record(i, json_dir[i]) : i \in Loadable}
    /\ \A i \in Loadable : \E k \in 1..Len(json_df.rows) : json_df.rows[k]["json_nct_id"] = Str(i)
    /\ json_df = prepare_json_df(json_dir, pool.completed)

C20_Witness == /\ pool.phase = "returned"
               /\ pool.completed = <<NCT3, NCT2, NCT1>>
               /\ ~json_dir[NCT2].valid
               /\ Len(json_df.rows) = 2
               /\ json_df.rows[1]["json_nct_id"] = Str(NCT3)
               /\ json_df.rows[2]["json_nct_id"] = Str(NCT1)

\* C21: prepare_json_df eventually returns, also when the load of one
\* requested document never completes.
C21_EventuallyReturns == <>(pool.phase = "returned")

\* what the code does instead: with a requested document whose load hangs
\* the call never returns, and it returns whenever no requested load hangs
C21_HungLoadBlocksReturn == (pool.phase = "returned") => (DOMAIN pool.futures \cap hung = {})

C21_ReturnsWhenNothingHangs == [](pool.phase = "collecting" /\ DOMAIN pool.futures \cap hung = {} => <>(pool.phase = "returned"))

\* ------------------------------------------------------------------------
\* Properties of the schema enforcers
\* ------------------------------------------------------------------------
\* the canonical type of a list field
ListTyped(c) == SchemaType(c) = "ListUtf8"

\* a value of a Utf8 column that no integer, and no date, can be read from
Uncastable(k, c) == /\ c \in ColSet(final_df)
                    /\ SchemaType(c) \in {"Int64", "Date"}
                    /\ final_df.dt[c] = "Utf8"
                    /\ final_df.rows[k][c] \in {Str(<<"x">>)} \cup (IF SchemaType(c) = "Date" THEN {Str(<<"1">>)} ELSE {})

\* C22: _enforce_output_schema completes for every input table, and a
\* value of a present column that cannot be cast to the canonical type is
\* null in the output.
C22_UncastableBecomesNull == pc = "enforced" =>
    /\ output_df.err = ""
    /\ Len(output_df.rows) = Len(final_df.rows)
    /\ \A k \in 1..Len(final_df.rows) : \A c \in Range(SchemaNames) : Uncastable(k, c) => IsNull(output_df.rows[k][c])

\* what the code does instead: it raises exactly when some value cannot
\* be cast, and completes otherwise
C22_RaisesOnUncastable == pc = "enforced" =>
    (output_df.err = "InvalidOperationError" <=> \E k \in 1..Len(final_df.rows) : \E c \in Range(SchemaNames) : Uncastable(k, c))

\* C23: for every canonical field missing from the table, every output
\* row of _enforce_output_schema, in the pipeline and in the operator,
\* holds null when the field is scalar-typed and the empty list when it is
\* list-typed.
C23_MissingFieldSynthesized == (pc \in {"enforced", "operator_enforced"} /\ output_df.err = "") =>
    \A k \in 1..Len(output_df.rows) : \A c \in Range(SchemaNames) \ ColSet(final_df) :
        output_df.rows[k][c] = (IF ListTyped(c) THEN List(<<>>) ELSE Null)

\* what the code does instead: the operator's enforcer does so, the
\* pipeline's enforcer holds null in the list-typed columns too
C23_OperatorSynthesizes == (pc = "operator_enforced" /\ output_df.err = "") =>
    \A k \in 1..Len(output_df.rows) : \A c \in Range(SchemaNames) \ ColSet(final_df) :
        output_df.rows[k][c] = (IF ListTyped(c) THEN List(<<>>) ELSE Null)

C23_PipelineNullEverywhere == (pc = "enforced" /\ output_df.err = "") =>
    \A k \in 1..Len(output_df.rows) : \A c \in Range(SchemaNames) \ ColSet(final_df) : output_df.rows[k][c] = Null

\* ------------------------------------------------------------------------
\* Properties of the joined table given to the coalescing
\* ------------------------------------------------------------------------
CoalescingRan == pc = "coalesced" /\ csv_df.err = "" /\ json_df.err = "" /\ merged_df.err = ""

\* C24: for a CSV with the standard header, the coalescing of each
\* strategy finds every column it reads in the outer join of the two
\* prepared tables, also when one of them is the key-only empty table, and
\* so does not fail on a missing column.
C24_CoalescingColumnsPresent == (CoalescingRan /\ csv_file.header = StandardHeader) => final_df.err = ""

\* what the code does instead: on the standard header every coalescing
\* fails on a missing column; on a header that already carries study_type
\* and brief_summary it succeeds exactly when the document table has rows
C24_StandardHeaderFails == (CoalescingRan /\ csv_file.header = StandardHeader) => final_df.err = "ColumnNotFoundError"

C24_HarmonizedHeader == (CoalescingRan /\ csv_file.header = HarmonizedHeader /\ Len(csv_df.rows) > 0) =>
    (final_df.err = "" <=> Len(json_df.rows) > 0)

\* ------------------------------------------------------------------------
\* Properties of the two provenance rules
\* ------------------------------------------------------------------------
LabelRun(kind) == runs[CHOOSE k \in 1..Len(runs) : runs[k].kind = kind].df

\* C25: the pipeline and the operator give every row the same
\* data_source label, for every strategy and every combination of a null
\* or non-null tabular title and document title.
C25_SameLabel == (Labelled("pipeline") /\ Labelled("operator")) =>
    /\ LabelRun("pipeline").err = ""
    /\ LabelRun("operator").err = ""
    /\ \A k \in 1..Len(final_df.rows) : LabelRun("pipeline").rows[k]["data_source"] = LabelRun("operator").rows[k]["data_source"]

\* what the code does instead: neither gives a label, the pipeline failing
\* on the member DataSource lacks and the operator on its import; and the
\* two json_priority rules, which read only members that exist, differ on
\* a row that has a document title and no tabular title
C25_NeitherLabels == /\ Labelled("pipeline") => LabelRun("pipeline").err = "AttributeError"
                     /\ Labelled("operator") => LabelRun("operator").err = "ImportError"

C25_JsonPriorityRulesDiffer == \A k \in 1..Len(final_df.rows) :
    LET r == final_df.rows[k]
        p == Eval(source_logic("json_priority"), r, <<>>)
        o == Eval(operator_source_logic("json_priority"), r, <<>>)
    IN IF ~IsNull(r["json_official_title"]) /\ IsNull(r["title"]) THEN p = Str("json_priority") /\ o = Str("json_only") ELSE p = o

\* ------------------------------------------------------------------------
\* Properties of the two clients against the same upstream
\* ------------------------------------------------------------------------
BothDone == http.phase = "done" /\ hybrid.phase = "done"

\* C27: against the same upstream outcomes the two clients make the same
\* number of requests and end with the same response or an exception of
\* the same type.
C27_SameBehaviour == BothDone =>
    /\ Len(http.requests) = Len(hybrid.requests)
    /\ http.returned = hybrid.returned
    /\ http.raised = hybrid.raised

\* what the code does instead: the two agree when every request got a
\* response; after a timeout or a connection failure the hybrid client
\* goes on to retry and wraps a third failure in RetryError, where the
\* other client raises TimeoutError or NetworkError after that request
C27_SameOnResponses == (BothDone /\ \A k \in 1..Len(http.requests) : http.requests[k].kind = "response") =>
    /\ Len(http.requests) = Len(hybrid.requests)
    /\ http.returned = hybrid.returned
    /\ http.raised = hybrid.raised
    /\ http.last_attempt = hybrid.last_attempt

C27_HybridRetriesTransport == (BothDone /\ \A k \in 1..stop_after_attempt : upstream.script[k].kind = "exception") =>
    /\ Len(http.requests) = 1 /\ http.raised \in {"TimeoutError", "NetworkError"}
    /\ Len(hybrid.requests) = 3 /\ hybrid.raised = "RetryError" /\ hybrid.last_attempt.cls \in {"TimeoutError", "NetworkError"}

====
